---- MODULE Spec2Model ----
(***************************************************************************)
(* PTP-over-WebUSB camera query (src/camera.ts): one getCameraInfo() call  *)
(* on a freshly selected USB device.  The USB device is the environment:   *)
(* every transferOut / transferIn / claim / release / close either rejects *)
(* or resolves with a chunk chosen by the device.                          *)
(***************************************************************************)
EXTENDS Integers, Sequences, FiniteSets, TLC

\* ------------------------------------------------------------------ bounds
\* Shutter-count values a device may report are 0..MaxValue.
MaxValue == 1

\* ------------------------------------------------------- program constants
PTP_HEADER_SIZE == 12

PTP_OC_GetDeviceInfo == 4097
PTP_OC_OpenSession == 4098
PTP_OC_CloseSession == 4099
PTP_OC_GetDevicePropValue == 4117

PTP_RC_OK == 8193
PTP_RC_SessionAlreadyOpened == 8222

PTP_USB_CONTAINER_COMMAND == 1
PTP_USB_CONTAINER_DATA == 2
PTP_USB_CONTAINER_RESPONSE == 3

PTP_VENDOR_CANON == 11
PTP_VENDOR_FUJI == 14

PTP_DPC_CANON_EOS_ShutterCounter == 53676
PTP_DPC_CANON_EOS_ShutterReleaseCounter == 53607
PTP_DPC_FUJI_TotalShotCount == 54032

PTP_OC_CANON_EOS_SetRemoteMode == 37140
PTP_OC_CANON_EOS_SetEventMode == 37141
PTP_OC_CANON_EOS_GetEvent == 37142
PTP_OC_CANON_EOS_PCHDDCapacity == 37146
PTP_OC_CANON_EOS_SetRequestOLCInfoGroup == 37181
PTP_OC_CANON_EOS_RequestDevicePropValue == 37159
PTP_EC_CANON_EOS_PropValueChanged == 49545

CAPTURED_PROP_CHANGES ==
  {PTP_DPC_CANON_EOS_ShutterCounter, PTP_DPC_CANON_EOS_ShutterReleaseCounter}

\* PtpDevice field initialiser: private transactionId: number = 0
InitialTransactionId == 0
\* receiveData: for (let i = 0; i < 3; i++)
HeaderAttempts == 3
\* drainShutterEvents: for (let i = 0; i < 5; i++)
DrainAttempts == 5
\* queryAndPollShutterProp: for (let i = 0; i < 5; i++)
PollAttempts == 5
\* getDevicePropValue: dataPacket.byteLength >= 16
PropValueMinLength == 16
\* parseCanonPropChanges: offset + 8 <= totalLength, size < 8, size == 8
EventHeaderSize == 8
\* parseCanonPropChanges: if (size >= 16)
EventValueMinSize == 16
\* Mutant: openSession resets the counter to its initial 0 instead of -1.
TransactionIdNoSentinel == InitialTransactionId
\* openSession: this.transactionId = -1
TransactionIdSentinel == -1
\* getCanonShutterCount: return -1 / getCameraInfo: let shutterCount = -1
Unavailable == -1
\* initCanon parameters
RemoteModeOn == 1
EventModeOn == 1
EventModeOff == 0
OLCInfoGroupAll == 8191
HDDCapacityFree == 268435455
HDDCapacityBlock == 4096
HDDCapacityOne == 1
\* openSession: sendCommand(PTP_OC_OpenSession, [1])
SessionId == 1

\* ------------------------------------------------------------ environment
\* A nullable number is a set: {} is null, {v} is the number v.
Null == {}
Some(v) == {v}
ValueOf(opt) == CHOOSE v \in opt : TRUE
NoError == "none"
Values == 0..MaxValue

\* A response code that is neither RC_OK nor RC_SessionAlreadyOpened.
RC_Other == PTP_RC_OK + 1
RespCodes == {PTP_RC_OK, PTP_RC_SessionAlreadyOpened, RC_Other}

\* A device property code outside CAPTURED_PROP_CHANGES.
UnwatchedProp == PTP_DPC_CANON_EOS_ShutterCounter + 1

\* Outcome of USBDevice.transferOut.
Writes == {"ok", "reject"}

\* What one transferIn can deliver: a rejected promise, or a chunk of
\* byteLength bytes.  A chunk of at least 12 bytes carries a container header.
\* `length` is the length field of the container header: these chunks hold
\* their whole container.
Chunk(n, t, c, v, r) ==
  [k |-> "pkt", byteLength |-> n, length |-> n, type |-> t, code |-> c, value |-> v,
   records |-> r]
Reject ==
  [k |-> "reject", byteLength |-> 0, length |-> 0, type |-> 0, code |-> 0, value |-> 0,
   records |-> <<>>]
EmptyChunk == Chunk(0, 0, 0, 0, <<>>)

\* Chunks answering a command that has no data phase.
RespChunks ==
  {Reject, EmptyChunk}
    \cup {Chunk(PTP_HEADER_SIZE, PTP_USB_CONTAINER_RESPONSE, c, 0, <<>>) : c \in RespCodes}

\* GetEvent payload records: size and type are the two u32 of the record
\* header, propCode the u32 after it, value the u32 at record offset 12.
Rec(s, t, p, v) == [size |-> s, type |-> t, propCode |-> p, value |-> v]
Change(p, v) == Rec(EventValueMinSize, PTP_EC_CANON_EOS_PropValueChanged, p, v)
Terminator == Rec(EventHeaderSize, 0, 0, 0)

RECURSIVE SumSizes(_)
SumSizes(recs) ==
  IF recs = <<>> THEN 0 ELSE Head(recs).size + SumSizes(Tail(recs))

\* A Data container holding the records back to back after the header.
EventData(recs) ==
  Chunk(PTP_HEADER_SIZE + SumSizes(recs), PTP_USB_CONTAINER_DATA,
        PTP_OC_CANON_EOS_GetEvent, 0, recs)

EventPayloads ==
  {<<>>, <<Terminator>>}
    \cup {<<Change(UnwatchedProp, v), Terminator>> : v \in Values}
    \cup {<<Change(p, v), Terminator>> : p \in CAPTURED_PROP_CHANGES, v \in Values}
    \cup {<<Change(PTP_DPC_CANON_EOS_ShutterReleaseCounter, v),
            Change(PTP_DPC_CANON_EOS_ShutterCounter, MaxValue - v)>> : v \in Values}

\* First chunks a device may deliver where a Data container is awaited.
BadHeaders ==
  {Reject, EmptyChunk,
   Chunk(PTP_HEADER_SIZE - 1, PTP_USB_CONTAINER_DATA, 0, 0, <<>>),
   Chunk(PTP_HEADER_SIZE, PTP_USB_CONTAINER_COMMAND, 0, 0, <<>>)}
ResponseHeaders ==
  {Chunk(PTP_HEADER_SIZE, PTP_USB_CONTAINER_RESPONSE, c, 0, <<>>) : c \in RespCodes}
EventChunks ==
  BadHeaders \cup ResponseHeaders \cup {EventData(recs) : recs \in EventPayloads}
PropChunks ==
  BadHeaders \cup ResponseHeaders
    \cup {Chunk(PTP_HEADER_SIZE, PTP_USB_CONTAINER_DATA, PTP_OC_GetDevicePropValue, 0, <<>>)}
    \cup {Chunk(PropValueMinLength, PTP_USB_CONTAINER_DATA, PTP_OC_GetDevicePropValue, v, <<>>)
            : v \in Values}

\* Number of empty transfers that precede the first chunk.
EmptyReads == 0..HeaderAttempts

\* ------------------------------------------------------------ DataView
\* A view is a record with the fields bytes (a sequence of 0..255) and
\* byteLength; offsets count from 0 as in the source.
View(bytes) == [byteLength |-> Len(bytes), bytes |-> bytes]

\* A read of n bytes at offset stays inside the buffer; the DataView getters
\* throw a RangeError otherwise.
CanRead(view, offset, n) == offset >= 0 /\ offset + n <= view.byteLength

getUint8(view, offset) == view.bytes[offset + 1]
getUint16(view, offset) ==
  view.bytes[offset + 1] + 256 * view.bytes[offset + 2]
getUint32(view, offset) ==
  view.bytes[offset + 1] + 256 * view.bytes[offset + 2]
    + 65536 * view.bytes[offset + 3] + 16777216 * view.bytes[offset + 4]

\* What the device writes: little-endian integers, PTP strings (a count
\* byte, the UTF-16 code units, a NUL terminator counted in), PTP arrays of
\* 16-bit codes (a 32-bit count, the items), and the container around them.
U16(v) == <<v % 256, v \div 256>>
U32(v) == <<v % 256, (v \div 256) % 256, (v \div 65536) % 256, v \div 16777216>>

RECURSIVE CodeUnits(_)
CodeUnits(str) == IF str = <<>> THEN <<>> ELSE U16(Head(str)) \o CodeUnits(Tail(str))
PtpString(str) ==
  IF str = <<>> THEN <<0>> ELSE <<Len(str) + 1>> \o CodeUnits(str) \o U16(0)

RECURSIVE PtpArray16Items(_)
PtpArray16Items(items) ==
  IF items = <<>> THEN <<>> ELSE U16(Head(items)) \o PtpArray16Items(Tail(items))
PtpArray16(items) == U32(Len(items)) \o PtpArray16Items(items)

Container(type, code, tid, payload) ==
  U32(PTP_HEADER_SIZE + Len(payload)) \o U16(type) \o U16(code) \o U32(tid) \o payload

\* ----------------------------------------------------------- PtpDevice I/O
\* Every receive reports, next to its outcome, the lengths it asked
\* transferIn for, one per call, in order.
ResponseReadSize == 512
HeaderReadSize == 1024
ThrewAfter(ins) == [threw |-> TRUE, view |-> Reject, ins |-> ins]
Threw == ThrewAfter(<<>>)
Got(view, ins) == [threw |-> FALSE, view |-> view, ins |-> ins]

\* receiveResponse: one transferIn; fewer than 12 bytes is an error.
receiveResponse(chunk) ==
  IF chunk.k = "reject" THEN ThrewAfter(<<ResponseReadSize>>)
  ELSE IF chunk.byteLength < PTP_HEADER_SIZE THEN ThrewAfter(<<ResponseReadSize>>)
  ELSE Got(chunk, <<ResponseReadSize>>)

\* The header loop reading once, whatever it gets.
headerLoopSingleRead(script, j) ==
  LET headerRes == script[j + 1]
  IN  [threw |-> headerRes.k = "reject", headerView |-> headerRes,
       ins |-> <<HeaderReadSize>>]

\* The header loop of receiveData from iteration j on: `script` holds the
\* chunks the device delivers, in order.  A rejected transfer throws; a
\* non-empty chunk ends the loop; after the last attempt the chunk read
\* last (an empty one) is kept.
RECURSIVE headerLoop(_, _)
headerLoop(script, j) ==
  IF j >= HeaderAttempts
    THEN [threw |-> FALSE, headerView |-> script[j], ins |-> <<>>]
  ELSE LET headerRes == script[j + 1]
           rest == headerLoop(script, j + 1)
       IN  IF headerRes.k = "reject"
             THEN [threw |-> TRUE, headerView |-> headerRes, ins |-> <<HeaderReadSize>>]
           ELSE IF headerRes.byteLength > 0
             THEN [threw |-> FALSE, headerView |-> headerRes, ins |-> <<HeaderReadSize>>]
           ELSE [threw |-> rest.threw, headerView |-> rest.headerView,
                 ins |-> <<HeaderReadSize>> \o rest.ins]

\* A chunk given with its bytes.
ByteChunk(bytes) ==
  [k |-> "pkt", byteLength |-> Len(bytes), bytes |-> bytes,
   length |-> IF Len(bytes) >= 4 THEN getUint32(View(bytes), 0) ELSE 0,
   type |-> IF Len(bytes) >= 6 THEN getUint16(View(bytes), 4) ELSE 0,
   code |-> IF Len(bytes) >= 8 THEN getUint16(View(bytes), 6) ELSE 0]

\* transferIn(endpoint, length) on the chunk the device sends next: the
\* result holds at most `length` bytes.  A script that has run out delivers
\* nothing.
transferIn(script, at, length) ==
  IF at > Len(script) THEN EmptyChunk
  ELSE IF script[at].k = "pkt" /\ script[at].byteLength > length
    THEN ByteChunk(SubSeq(script[at].bytes, 1, length))
  ELSE script[at]

\* Uint8Array.set: `bytes` copied into `buffer` from `offset` on.
SetBytes(buffer, offset, bytes) ==
  [j \in 1..Len(buffer) |->
     IF j > offset /\ j <= offset + Len(bytes) THEN bytes[j - offset] ELSE buffer[j]]

\* The loop advancing by what it asked for, not by what it got.
RECURSIVE receiveRemainingAdvancesByRequest(_, _, _, _, _)
receiveRemainingAdvancesByRequest(script, at, length, offset, fullBuffer) ==
  IF offset >= length THEN [threw |-> FALSE, fullBuffer |-> fullBuffer, ins |-> <<>>]
  ELSE LET nextChunk == transferIn(script, at, length - offset)
           rest == receiveRemainingAdvancesByRequest(script, at + 1, length, length,
                     SetBytes(fullBuffer, offset, nextChunk.bytes))
       IN  IF nextChunk.k = "reject"
             THEN [threw |-> TRUE, fullBuffer |-> fullBuffer, ins |-> <<length - offset>>]
           ELSE IF nextChunk.byteLength = 0
             THEN [threw |-> FALSE, fullBuffer |-> fullBuffer, ins |-> <<length - offset>>]
           ELSE [threw |-> rest.threw, fullBuffer |-> rest.fullBuffer,
                 ins |-> <<length - offset>> \o rest.ins]

\* The second loop of receiveData, from the chunk at index `at` of the
\* script on: while the buffer is not full, ask for what is missing; a
\* rejected transfer throws, an empty chunk ends the loop, any other chunk
\* is copied in at `offset`.
RECURSIVE receiveRemaining(_, _, _, _, _)
receiveRemaining(script, at, length, offset, fullBuffer) ==
  IF offset >= length THEN [threw |-> FALSE, fullBuffer |-> fullBuffer, ins |-> <<>>]
  ELSE LET nextChunk == transferIn(script, at, length - offset)
           rest == receiveRemaining(script, at + 1, length, offset + nextChunk.byteLength,
                     SetBytes(fullBuffer, offset, nextChunk.bytes))
       IN  IF nextChunk.k = "reject"
             THEN [threw |-> TRUE, fullBuffer |-> fullBuffer, ins |-> <<length - offset>>]
           ELSE IF nextChunk.byteLength = 0
             THEN [threw |-> FALSE, fullBuffer |-> fullBuffer, ins |-> <<length - offset>>]
           ELSE [threw |-> rest.threw, fullBuffer |-> rest.fullBuffer,
                 ins |-> <<length - offset>> \o rest.ins]

\* receiveData on a script of chunks: the header loop, the header checks,
\* and for a Data container longer than its first chunk the second loop,
\* on a buffer of the declared length that starts with the first chunk.
receiveDataScript(script) ==
  LET h == headerLoop(script, 0)
      headerView == h.headerView
      length == headerView.length
      gathered == receiveRemaining(script, Len(h.ins) + 1, length, headerView.byteLength,
                    SetBytes([j \in 1..length |-> 0], 0, headerView.bytes))
  IN  IF h.threw THEN ThrewAfter(h.ins)
      ELSE IF headerView.byteLength < PTP_HEADER_SIZE THEN ThrewAfter(h.ins)
      ELSE IF headerView.type # PTP_USB_CONTAINER_DATA
        THEN IF headerView.type = PTP_USB_CONTAINER_RESPONSE
               THEN Got(headerView, h.ins) ELSE ThrewAfter(h.ins)
      ELSE IF headerView.byteLength >= length THEN Got(headerView, h.ins)
      ELSE IF gathered.threw THEN ThrewAfter(h.ins \o gathered.ins)
      ELSE Got(ByteChunk(gathered.fullBuffer), h.ins \o gathered.ins)

\* receiveData when `empties` empty transfers come first, then `chunk`.
receiveData(empties, chunk) ==
  receiveDataScript([j \in 1..HeaderAttempts |-> IF j <= empties THEN EmptyChunk ELSE chunk])

\* getDevicePropValue after its sendCommand: the value, Null, or a throw.
\* `ins` lists the lengths asked of transferIn, as for the receives.
PropThrew(ins) == [threw |-> TRUE, value |-> Null, ins |-> ins]
PropGot(v, ins) == [threw |-> FALSE, value |-> v, ins |-> ins]

\* getDevicePropValue reading a response in every case.
getDevicePropValueAlwaysReadsResponse(w, empties, chunk, resp) ==
  IF w = "reject" THEN PropThrew(<<>>)
  ELSE LET dataPacket == receiveData(empties, chunk)
           responsePacket == receiveResponse(resp)
           ins == dataPacket.ins \o responsePacket.ins
       IN  IF dataPacket.threw THEN PropThrew(dataPacket.ins)
           ELSE IF responsePacket.threw THEN PropThrew(ins)
           ELSE IF dataPacket.view.type = PTP_USB_CONTAINER_RESPONSE THEN PropGot(Null, ins)
           ELSE IF responsePacket.view.code # PTP_RC_OK THEN PropGot(Null, ins)
           ELSE IF dataPacket.view.byteLength >= PropValueMinLength
             THEN PropGot(Some(dataPacket.view.value), ins)
           ELSE PropGot(Null, ins)

getDevicePropValue(w, empties, chunk, resp) ==
  IF w = "reject" THEN PropThrew(<<>>)
  ELSE LET dataPacket == receiveData(empties, chunk)
       IN  IF dataPacket.threw THEN PropThrew(dataPacket.ins)
           ELSE IF dataPacket.view.type = PTP_USB_CONTAINER_RESPONSE
             THEN PropGot(Null, dataPacket.ins)
           ELSE LET responsePacket == receiveResponse(resp)
                    ins == dataPacket.ins \o responsePacket.ins
                IN  IF responsePacket.threw THEN PropThrew(ins)
                    ELSE IF responsePacket.view.code # PTP_RC_OK THEN PropGot(Null, ins)
                    ELSE IF dataPacket.view.byteLength >= PropValueMinLength
                      THEN PropGot(Some(dataPacket.view.value), ins)
                    ELSE PropGot(Null, ins)

\* parseCanonPropChanges: walk the records by their declared sizes.  The
\* The walk throws when the property code of a PropValueChanged record lies
\* beyond the buffer (DataView RangeError).
RECURSIVE parseRecords(_, _, _, _)
\* parseCanonPropChanges keeping the changes of every property code.
RECURSIVE parseRecordsKeepsEveryCode(_, _, _, _)
parseRecordsKeepsEveryCode(recs, offset, totalLength, changes) ==
  IF recs = <<>> \/ offset + EventHeaderSize > totalLength
    THEN [threw |-> FALSE, changes |-> changes]
  ELSE LET r == Head(recs)
           stop == [threw |-> FALSE, changes |-> changes]
       IN  IF r.size < EventHeaderSize THEN stop
           ELSE IF r.size = EventHeaderSize /\ r.type = 0 THEN stop
           ELSE IF offset + r.size > totalLength THEN stop
           ELSE IF r.type = PTP_EC_CANON_EOS_PropValueChanged
                   /\ offset + PTP_HEADER_SIZE > totalLength
             THEN [threw |-> TRUE, changes |-> <<>>]
           ELSE parseRecordsKeepsEveryCode(Tail(recs), offset + r.size, totalLength,
                  IF /\ r.type = PTP_EC_CANON_EOS_PropValueChanged
                     /\ r.size >= EventValueMinSize
                    THEN Append(changes, [propCode |-> r.propCode, value |-> r.value])
                    ELSE changes)

parseRecords(recs, offset, totalLength, changes) ==
  IF recs = <<>> \/ offset + EventHeaderSize > totalLength
    THEN [threw |-> FALSE, changes |-> changes]
  ELSE LET r == Head(recs)
           stop == [threw |-> FALSE, changes |-> changes]
       IN  IF r.size < EventHeaderSize THEN stop
           ELSE IF r.size = EventHeaderSize /\ r.type = 0 THEN stop
           ELSE IF offset + r.size > totalLength THEN stop
           ELSE IF r.type = PTP_EC_CANON_EOS_PropValueChanged
                   /\ offset + PTP_HEADER_SIZE > totalLength
             THEN [threw |-> TRUE, changes |-> <<>>]
           ELSE parseRecords(Tail(recs), offset + r.size, totalLength,
                  IF /\ r.type = PTP_EC_CANON_EOS_PropValueChanged
                     /\ r.propCode \in CAPTURED_PROP_CHANGES
                     /\ r.size >= EventValueMinSize
                    THEN Append(changes, [propCode |-> r.propCode, value |-> r.value])
                    ELSE changes)

parseCanonPropChanges(dataView) ==
  parseRecords(dataView.records, PTP_HEADER_SIZE, dataView.byteLength, <<>>)

\* getCanonPropChanges after its sendCommand: every error becomes [].
getCanonPropChanges(w, empties, chunk, resp) ==
  IF w = "reject" THEN <<>>
  ELSE LET data == receiveData(empties, chunk)
       IN  IF data.threw THEN <<>>
           ELSE IF data.view.type = PTP_USB_CONTAINER_RESPONSE THEN <<>>
           ELSE IF receiveResponse(resp).threw THEN <<>>
           ELSE IF data.view.byteLength <= PTP_HEADER_SIZE THEN <<>>
           ELSE LET parsed == parseCanonPropChanges(data.view)
                IN  IF parsed.threw THEN <<>> ELSE parsed.changes

\* Array.prototype.find: the first element satisfying the test, or Null.
RECURSIVE FindValue(_, _)
\* parseCanonPropChanges on the bytes of the container.  size and type are
\* read inside the loop guard; the property code of a PropValueChanged
\* record is read without a guard, 8 bytes into the record, and the getter
\* throws when fewer than 4 bytes follow.
RECURSIVE parseCanonPropChangesLoop(_, _, _)
parseCanonPropChangesLoop(dataView, offset, changes) ==
  IF offset + EventHeaderSize > dataView.byteLength
    THEN [threw |-> FALSE, changes |-> changes]
  ELSE LET size == getUint32(dataView, offset)
           type == getUint32(dataView, offset + 4)
           stop == [threw |-> FALSE, changes |-> changes]
       IN  IF size < EventHeaderSize THEN stop
           ELSE IF size = EventHeaderSize /\ type = 0 THEN stop
           ELSE IF offset + size > dataView.byteLength THEN stop
           ELSE IF type # PTP_EC_CANON_EOS_PropValueChanged
             THEN parseCanonPropChangesLoop(dataView, offset + size, changes)
           ELSE IF ~CanRead(dataView, offset + EventHeaderSize, 4)
             THEN [threw |-> TRUE, changes |-> <<>>]
           ELSE LET propCode == getUint32(dataView, offset + EventHeaderSize)
                    valueOffset == offset + PTP_HEADER_SIZE
                IN  parseCanonPropChangesLoop(dataView, offset + size,
                      IF propCode \in CAPTURED_PROP_CHANGES /\ size >= EventValueMinSize
                        THEN Append(changes, [propCode |-> propCode,
                                              value |-> getUint32(dataView, valueOffset)])
                        ELSE changes)

parseCanonPropChangesBytes(dataView) ==
  parseCanonPropChangesLoop(dataView, PTP_HEADER_SIZE, <<>>)

\* A find that keeps the last element satisfying the test.
RECURSIVE FindValueLast(_, _)
FindValueLast(evts, codes) ==
  IF evts = <<>> THEN Null
  ELSE IF FindValueLast(Tail(evts), codes) # Null THEN FindValueLast(Tail(evts), codes)
  ELSE IF Head(evts).propCode \in codes THEN Some(Head(evts).value)
  ELSE Null

FindValue(evts, codes) ==
  IF evts = <<>> THEN Null
  ELSE IF Head(evts).propCode \in codes THEN Some(Head(evts).value)
  ELSE FindValue(Tail(evts), codes)

\* ------------------------------------------------------------- device info
\* Strings are sequences of UTF-16 code units.
canon == <<99, 97, 110, 111, 110>>
fuji == <<102, 117, 106, 105>>

\* toLowerCase on the ASCII letters; other code units are left alone.
toLowerCaseChar(c) == IF c \in 65..90 THEN c + 32 ELSE c

toLowerCase(str) == [k \in 1..Len(str) |-> toLowerCaseChar(str[k])]

includes(str, sub) ==
  \E k \in 0..(Len(str) - Len(sub)) : SubSeq(str, k + 1, k + Len(sub)) = sub

\* "Canon", "FUJI", "Nikon" and the empty string.
Manufacturers ==
  {<<67, 97, 110, 111, 110>>, <<70, 85, 74, 73>>, <<78, 105, 107, 111, 110>>, <<>>}

VendorOther == PTP_VENDOR_CANON + 1
VendorExtensionIds == {PTP_VENDOR_CANON, PTP_VENDOR_FUJI, VendorOther}

\* Model "m", version "v", serial "s".
DeviceInfo(ext, man) ==
  [vendorExtensionId |-> ext, manufacturer |-> man,
   model |-> <<109>>, version |-> <<118>>, serial |-> <<115>>]
NoDeviceInfo == DeviceInfo(0, <<>>)
DeviceInfos == {DeviceInfo(ext, man) : ext \in VendorExtensionIds, man \in Manufacturers}

\* The DeviceInfo dataset as the device writes it: standard version 100,
\* extension id, extension version, extension description `desc`,
\* functional mode, five arrays (operations `ops`, then four empty ones)
\* and the four identity strings.
DeviceInfoDataset(info, desc, ops) ==
  U16(100) \o U32(info.vendorExtensionId) \o U16(100) \o PtpString(desc) \o U16(0)
    \o PtpArray16(ops) \o PtpArray16(<<>>) \o PtpArray16(<<>>)
    \o PtpArray16(<<>>) \o PtpArray16(<<>>)
    \o PtpString(info.manufacturer) \o PtpString(info.model)
    \o PtpString(info.version) \o PtpString(info.serial)

DeviceInfoContainer(info, desc, ops) ==
  Container(PTP_USB_CONTAINER_DATA, PTP_OC_GetDeviceInfo, 1, DeviceInfoDataset(info, desc, ops))

\* A chunk of a GetDeviceInfo exchange: the bytes and the header fields
\* receiveData and getDeviceInfo read from them.
InfoChunk(kind, bytes) ==
  [k |-> kind, byteLength |-> Len(bytes), bytes |-> bytes,
   length |-> IF Len(bytes) >= 4 THEN getUint32(View(bytes), 0) ELSE 0,
   type |-> IF Len(bytes) >= 6 THEN getUint16(View(bytes), 4) ELSE 0,
   code |-> IF Len(bytes) >= 8 THEN getUint16(View(bytes), 6) ELSE 0]
InfoChunks ==
  {InfoChunk("reject", <<>>),
   InfoChunk("pkt", <<>>),
   InfoChunk("pkt", Container(PTP_USB_CONTAINER_COMMAND, 0, 1, <<>>)),
   InfoChunk("pkt", Container(PTP_USB_CONTAINER_DATA, PTP_OC_GetDeviceInfo, 1, <<>>))}
    \cup {InfoChunk("pkt", Container(PTP_USB_CONTAINER_RESPONSE, c, 1, <<>>)) : c \in RespCodes}
    \cup {InfoChunk("pkt", DeviceInfoContainer(d, <<>>, <<PTP_OC_GetDeviceInfo>>))
            : d \in DeviceInfos}

\* parsePtpString: never throws, every read is guarded.
RECURSIVE parsePtpStringChars(_, _, _, _, _)
parsePtpStringChars(view, offset, numChars, j, str) ==
  IF j >= numChars THEN str
  ELSE IF offset + 1 + j * 2 + 2 > view.byteLength THEN str
  ELSE LET charCode == getUint16(view, offset + 1 + j * 2)
       IN  parsePtpStringChars(view, offset, numChars, j + 1,
                               IF charCode # 0 THEN Append(str, charCode) ELSE str)

\* parsePtpString advancing by the count as if it were a number of bytes.
parsePtpStringAdvancesByCount(view, offset) ==
  IF offset >= view.byteLength THEN [text |-> <<>>, newOffset |-> offset]
  ELSE LET numChars == getUint8(view, offset)
       IN  IF numChars = 0 THEN [text |-> <<>>, newOffset |-> offset + 1]
           ELSE [text |-> parsePtpStringChars(view, offset, numChars, 0, <<>>),
                 newOffset |-> offset + 1 + numChars]

parsePtpString(view, offset) ==
  IF offset >= view.byteLength THEN [text |-> <<>>, newOffset |-> offset]
  ELSE LET numChars == getUint8(view, offset)
       IN  IF numChars = 0 THEN [text |-> <<>>, newOffset |-> offset + 1]
           ELSE [text |-> parsePtpStringChars(view, offset, numChars, 0, <<>>),
                 newOffset |-> offset + 1 + numChars * 2]

\* One of the five arrays parseDeviceInfo steps over, from the offset `at`
\* of the previous step: the count is read with an unguarded getUint32,
\* which throws past the end of the buffer.
skipArray(view, at) ==
  IF at.threw \/ ~CanRead(view, at.offset, 4) THEN [threw |-> TRUE, offset |-> at.offset]
  ELSE [threw |-> FALSE, offset |-> at.offset + 4 + getUint32(view, at.offset) * 2]

\* parseDeviceInfo: the fixed fields are read with unguarded getters.
InfoThrew == [threw |-> TRUE, info |-> NoDeviceInfo]
parseDeviceInfo(view) ==
  LET descOffset == PTP_HEADER_SIZE + 2 + 4 + 2
      vendorExtensionDesc == parsePtpString(view, descOffset)
      modeOffset == vendorExtensionDesc.newOffset
      ops == skipArray(view, [threw |-> FALSE, offset |-> modeOffset + 2])
      events == skipArray(view, ops)
      props == skipArray(view, events)
      caps == skipArray(view, props)
      imgs == skipArray(view, caps)
      manufacturer == parsePtpString(view, imgs.offset)
      model == parsePtpString(view, manufacturer.newOffset)
      deviceVersion == parsePtpString(view, model.newOffset)
      serialNumber == parsePtpString(view, deviceVersion.newOffset)
  IN  IF \/ ~CanRead(view, PTP_HEADER_SIZE, 2)
         \/ ~CanRead(view, PTP_HEADER_SIZE + 2, 4)
         \/ ~CanRead(view, PTP_HEADER_SIZE + 2 + 4, 2)
        THEN InfoThrew
      ELSE IF ~CanRead(view, modeOffset, 2) THEN InfoThrew
      ELSE IF imgs.threw THEN InfoThrew
      ELSE [threw |-> FALSE,
            info |-> [vendorExtensionId |-> getUint32(view, PTP_HEADER_SIZE + 2),
                      manufacturer |-> manufacturer.text,
                      model |-> model.text,
                      version |-> deviceVersion.text,
                      serial |-> serialNumber.text]]

\* getDeviceInfo after its sendCommand.
getDeviceInfo(w, empties, chunk, resp) ==
  IF w = "reject" THEN InfoThrew
  ELSE LET dataPacket == receiveData(empties, chunk)
       IN  IF dataPacket.threw THEN InfoThrew
           ELSE IF dataPacket.view.type = PTP_USB_CONTAINER_RESPONSE THEN InfoThrew
           ELSE LET responsePacket == receiveResponse(resp)
                IN  IF responsePacket.threw THEN InfoThrew
                    ELSE IF responsePacket.view.code # PTP_RC_OK THEN InfoThrew
                    ELSE parseDeviceInfo(dataPacket.view)

\* The vendor id chosen without lower-casing the manufacturer.
vendorIdCaseSensitive(info) ==
  IF includes(info.manufacturer, canon) THEN PTP_VENDOR_CANON
  ELSE IF includes(info.manufacturer, fuji) THEN PTP_VENDOR_FUJI
  ELSE info.vendorExtensionId

\* getCameraInfo lines 551-557: the vendor id the strategy is chosen by.
vendorId(info) ==
  IF includes(toLowerCase(info.manufacturer), canon)
    THEN PTP_VENDOR_CANON
  ELSE IF includes(toLowerCase(info.manufacturer), fuji)
    THEN PTP_VENDOR_FUJI
  ELSE info.vendorExtensionId

\* ------------------------------------------------------------------- state
VARIABLES
  pc,               \* position of getCameraInfo's single flow of control
  i,                \* loop index of initCanon / drain / poll
  stage,            \* Canon cascade stage 1..5 (0 outside the cascade)
  transactionId,    \* PtpDevice.transactionId
  opened,           \* USBDevice.opened
  interfaceNumber,  \* PtpDevice.interfaceNumber (Null or Some(n))
  deviceInfo,       \* const deviceInfo of getCameraInfo
  shutterCount,     \* let shutterCount of getCameraInfo
  thrown,           \* the exception in flight, NoError when none
  outcome,          \* "pending", "resolved" or "rejected": getCameraInfo's promise
  retval,           \* the CameraInfo built by the return statement
  log,              \* history: commands sent and PtpDevice.close() calls, in order
  stages,           \* history: vendor stages run and what each yielded
  answers,          \* history: response codes read by openSession
  primary,          \* history: first error thrown by a step other than close()
  caught,           \* history: cleanup failures that a catch block swallowed
  input,            \* argument of the function applied on its own (see below)
  output            \* its result, NotApplied before the application

vars ==
  <<pc, i, stage, transactionId, opened, interfaceNumber, deviceInfo, shutterCount,
    thrown, outcome, retval, log, stages, answers, primary, caught, input, output>>

\* The decoding functions of PtpDevice are also applied on their own, to
\* buffers that no whole query of this model delivers: `input` holds the
\* argument and `output` the result.  A query leaves both untouched.
harness == <<input, output>>
NotApplied == [applied |-> FALSE]
NoInput == [none |-> TRUE]

\* encodePacket writes the counter as a u32; one query sends fewer than 40
\* commands, so the written id is the counter itself.
Cmd(code, tid, params) ==
  [ev |-> "cmd", code |-> code, tid |-> tid, params |-> params]
CloseEv == [ev |-> "close", code |-> 0, tid |-> 0, params |-> <<>>]

NoCameraInfo ==
  [manufacturer |-> <<>>, model |-> <<>>, version |-> <<>>, serial |-> <<>>,
   shutterCount |-> Unavailable]

\* A fresh PtpDevice and a getCameraInfo call at position `p`.
Fresh(p) ==
  /\ pc = p
  /\ i = 0
  /\ stage = 0
  /\ transactionId = InitialTransactionId
  /\ opened = FALSE
  /\ interfaceNumber = Null
  /\ deviceInfo = NoDeviceInfo
  /\ shutterCount = Unavailable
  /\ thrown = NoError
  /\ outcome = "pending"
  /\ retval = NoCameraInfo
  /\ log = <<>>
  /\ stages = <<>>
  /\ answers = <<>>
  /\ primary = NoError
  /\ caught = {}

Init ==
  /\ Fresh("connect")
  /\ input = NoInput
  /\ output = NotApplied

\* A function applied on its own to one argument drawn from `args`.
ApplyInit(f, args) ==
  /\ Fresh(f)
  /\ input \in args
  /\ output = NotApplied

\* The application itself: `result` is the function's value on `input`.
Apply(f, result) ==
  /\ pc = f
  /\ output = NotApplied
  /\ output' = [applied |-> TRUE, result |-> result]
  /\ pc' = "applied"
  /\ UNCHANGED <<i, stage, transactionId, opened, interfaceNumber, deviceInfo,
                 shutterCount, thrown, outcome, retval, log, stages, answers, primary,
                 caught, input>>

\* sendCommand encoding id + 1 without storing it back in the counter.
sendCommandKeepsCounter(cur, code, params) ==
  /\ transactionId' = cur
  /\ log' = Append(log, Cmd(code, cur + 1, params))

\* sendCommand with the counter at `cur`: increment, encode, transferOut.
\* The command is logged whether or not transferOut then rejects.
sendCommand(cur, code, params) ==
  /\ transactionId' = cur + 1
  /\ log' = Append(log, Cmd(code, cur + 1, params))

\* sendCommand followed by receiveResponse, as most operations do.
exchange(w, chunk) == IF w = "reject" THEN Threw ELSE receiveResponse(chunk)

\* Mutant: no finally block, an exception leaves getCameraInfo directly.
getCameraInfoUnwindNoFinally == "done"

\* Where an exception leaving getCameraInfo's outer try block goes.
getCameraInfoUnwind == "finally"

\* An exception `e` propagates out of the outer try block.
Throw(e) ==
  /\ thrown' = e
  /\ primary' = IF primary = NoError /\ e # "close" THEN e ELSE primary
  /\ pc' = getCameraInfoUnwind

\* ----------------------------------------------------------------- connect
ConnectOutcomes ==
  {"openRejects", "selectConfigurationRejects", "noInterface", "claimRejects",
   "noEndpoints", "ok"}
InterfaceNumbers == {0}

connect ==
  /\ pc = "connect"
  /\ \E o \in ConnectOutcomes, n \in InterfaceNumbers :
       /\ opened' = (o # "openRejects")
       /\ interfaceNumber' =
            IF o \in {"claimRejects", "noEndpoints", "ok"} THEN Some(n) ELSE Null
       /\ IF o = "ok"
            THEN /\ pc' = "openSession"
                 /\ UNCHANGED <<thrown, primary>>
            ELSE Throw("connect")
  /\ UNCHANGED harness
  /\ UNCHANGED <<i, stage, transactionId, deviceInfo, shutterCount, outcome, retval,
                 log, stages, answers, caught>>

\* ------------------------------------------------------------- openSession
\* What openSession does on the first response code.
openSessionFirst(respCode) ==
  IF respCode = PTP_RC_OK THEN "getDeviceInfo"
  ELSE IF respCode = PTP_RC_SessionAlreadyOpened THEN "openSessionClose"
  ELSE "throw"

\* openSession going on whatever the retry is answered.
openSessionSecondIgnoresCode(respCode) == "getDeviceInfo"

\* What openSession does on the response code of the retry.
openSessionSecond(respCode) ==
  IF respCode # PTP_RC_OK THEN "throw" ELSE "getDeviceInfo"

openSession ==
  /\ pc = "openSession"
  /\ sendCommand(TransactionIdSentinel, PTP_OC_OpenSession, <<SessionId>>)
  /\ \E w \in Writes, chunk \in RespChunks :
       LET r == exchange(w, chunk)
       IN  IF r.threw
             THEN Throw("openSession") /\ UNCHANGED answers
             ELSE /\ answers' = Append(answers, r.view.code)
                  /\ IF openSessionFirst(r.view.code) = "throw"
                       THEN Throw("openSession")
                       ELSE /\ pc' = openSessionFirst(r.view.code)
                            /\ UNCHANGED <<thrown, primary>>
  /\ UNCHANGED harness
  /\ UNCHANGED <<i, stage, opened, interfaceNumber, deviceInfo, shutterCount, outcome,
                 retval, stages, caught>>

\* closeSession called from openSession's conflict recovery.
openSessionClose ==
  /\ pc = "openSessionClose"
  /\ sendCommand(transactionId, PTP_OC_CloseSession, <<>>)
  /\ \E w \in Writes, chunk \in RespChunks :
       IF exchange(w, chunk).threw
         THEN Throw("closeSession")
         ELSE pc' = "openSessionRetry" /\ UNCHANGED <<thrown, primary>>
  /\ UNCHANGED harness
  /\ UNCHANGED <<i, stage, opened, interfaceNumber, deviceInfo, shutterCount, outcome,
                 retval, stages, answers, caught>>

openSessionRetry ==
  /\ pc = "openSessionRetry"
  /\ sendCommand(TransactionIdSentinel, PTP_OC_OpenSession, <<SessionId>>)
  /\ \E w \in Writes, chunk \in RespChunks :
       LET r == exchange(w, chunk)
       IN  IF r.threw
             THEN Throw("openSession") /\ UNCHANGED answers
             ELSE /\ answers' = Append(answers, r.view.code)
                  /\ IF openSessionSecond(r.view.code) = "throw"
                       THEN Throw("openSession")
                       ELSE /\ pc' = openSessionSecond(r.view.code)
                            /\ UNCHANGED <<thrown, primary>>
  /\ UNCHANGED harness
  /\ UNCHANGED <<i, stage, opened, interfaceNumber, deviceInfo, shutterCount, outcome,
                 retval, stages, caught>>

\* Dispatch running the Canon strategy for every recognised vendor.
vendorStrategyCanonForAll(info) ==
  IF vendorId(info) \in {PTP_VENDOR_CANON, PTP_VENDOR_FUJI} THEN "initCanon"
  ELSE "closeSession"

\* ----------------------------------------------------------- getDeviceInfo
\* getCameraInfo lines 559-570: the branch taken for a device info.
vendorStrategy(info) ==
  IF vendorId(info) = PTP_VENDOR_CANON THEN "initCanon"
  ELSE IF vendorId(info) = PTP_VENDOR_FUJI THEN "fuji"
  ELSE "closeSession"

GetDeviceInfo ==
  /\ pc = "getDeviceInfo"
  /\ sendCommand(transactionId, PTP_OC_GetDeviceInfo, <<>>)
  /\ \E w \in Writes, empties \in EmptyReads, chunk \in InfoChunks, resp \in RespChunks :
       LET r == getDeviceInfo(w, empties, chunk, resp)
       IN  IF r.threw
             THEN Throw("getDeviceInfo") /\ UNCHANGED deviceInfo
             ELSE /\ deviceInfo' = r.info
                  /\ pc' = vendorStrategy(r.info)
                  /\ UNCHANGED <<thrown, primary>>
  /\ UNCHANGED harness
  /\ UNCHANGED <<i, stage, opened, interfaceNumber, shutterCount, outcome, retval,
                 stages, answers, caught>>

\* -------------------------------------------------------------------- Canon
InitSteps ==
  << [code |-> PTP_OC_CANON_EOS_SetRemoteMode, params |-> <<RemoteModeOn>>],
     [code |-> PTP_OC_CANON_EOS_SetEventMode, params |-> <<EventModeOn>>],
     [code |-> PTP_OC_CANON_EOS_SetRequestOLCInfoGroup, params |-> <<OLCInfoGroupAll>>],
     [code |-> PTP_OC_CANON_EOS_PCHDDCapacity,
      params |-> <<HDDCapacityFree, HDDCapacityBlock, HDDCapacityOne>>] >>

\* Where an exception thrown inside the Canon try block goes (its finally).
canonUnwind == "exitCanon1"

CanonThrow(e) ==
  /\ thrown' = e
  /\ primary' = IF primary = NoError THEN e ELSE primary
  /\ pc' = canonUnwind

\* initCanon, one step per command: send, read the response, ignore its code.
initCanon ==
  /\ pc = "initCanon"
  /\ sendCommand(transactionId, InitSteps[i + 1].code, InitSteps[i + 1].params)
  /\ \E w \in Writes, chunk \in RespChunks :
       IF exchange(w, chunk).threw
         THEN CanonThrow("initCanon") /\ UNCHANGED <<i, stage>>
         ELSE /\ UNCHANGED <<thrown, primary>>
              /\ IF i + 1 < Len(InitSteps)
                   THEN i' = i + 1 /\ pc' = "initCanon" /\ UNCHANGED stage
                   ELSE i' = 0 /\ pc' = "drain" /\ stage' = 1
  /\ UNCHANGED harness
  /\ UNCHANGED <<opened, interfaceNumber, deviceInfo, shutterCount, outcome, retval,
                 stages, answers, caught>>

\* Every stage asking for the shutter counter.
StagePropShutterCounterOnly(st) == PTP_DPC_CANON_EOS_ShutterCounter

StageProp(st) ==
  IF st \in {2, 3} THEN PTP_DPC_CANON_EOS_ShutterCounter
  ELSE PTP_DPC_CANON_EOS_ShutterReleaseCounter

\* getCanonShutterCount: the five stages in the order it calls them.
CanonStages == <<"drain", "request", "direct", "request", "direct">>
StagePc(st) == CanonStages[st]
LastStage == Len(CanonStages)

\* Mutant: the cascade does not return on the first value, only at the end.
getCanonShutterCountNoShortCircuit(st, count) ==
  IF st # LastStage THEN [returned |-> FALSE, value |-> Unavailable]
  ELSE IF count # Null THEN [returned |-> TRUE, value |-> ValueOf(count)]
  ELSE [returned |-> TRUE, value |-> Unavailable]

\* getCanonShutterCount: what follows a stage that yielded `count`.
getCanonShutterCount(st, count) ==
  IF count # Null THEN [returned |-> TRUE, value |-> ValueOf(count)]
  ELSE IF st = LastStage THEN [returned |-> TRUE, value |-> Unavailable]
  ELSE [returned |-> FALSE, value |-> Unavailable]

\* A stage returned `count` (Null or Some(v)) to getCanonShutterCount.
StageDone(count) ==
  LET nxt == getCanonShutterCount(stage, count)
  IN  /\ stages' = Append(stages, [stage |-> stage, yield |-> count, threw |-> FALSE])
      /\ i' = 0
      /\ IF nxt.returned
           THEN /\ shutterCount' = nxt.value
                /\ pc' = "exitCanon1"
                /\ stage' = 0
           ELSE /\ UNCHANGED shutterCount
                /\ stage' = stage + 1
                /\ pc' = StagePc(stage + 1)

\* The decoded events of a poll are local to the loop: a query keeps no
\* trace of them; the cascade on its own keeps them in `input` until the
\* next poll.
Observe(kept, evts) ==
  IF kept THEN input' = evts /\ UNCHANGED output ELSE UNCHANGED harness

\* drainShutterEvents: one loop iteration per step.
drainShutterEventsStep(kept) ==
  /\ pc = "drain"
  /\ sendCommand(transactionId, PTP_OC_CANON_EOS_GetEvent, <<>>)
  /\ \E w \in Writes, empties \in EmptyReads, chunk \in EventChunks, resp \in RespChunks :
       LET evts == getCanonPropChanges(w, empties, chunk, resp)
           shutterEvt == FindValue(evts, CAPTURED_PROP_CHANGES)
       IN  /\ Observe(kept, evts)
           /\ IF shutterEvt # Null THEN StageDone(shutterEvt)
              ELSE IF evts = <<>> THEN StageDone(Null)
              ELSE IF i + 1 < DrainAttempts
                THEN /\ i' = i + 1
                     /\ UNCHANGED <<pc, stage, shutterCount, stages>>
              ELSE StageDone(Null)
  /\ UNCHANGED <<opened, interfaceNumber, deviceInfo, thrown, outcome, retval, answers,
                 primary, caught>>

drainShutterEvents == drainShutterEventsStep(FALSE)

\* queryAndPollShutterProp: RequestDevicePropValue and its response.
queryShutterProp ==
  /\ pc = "request"
  /\ sendCommand(transactionId, PTP_OC_CANON_EOS_RequestDevicePropValue,
                 <<StageProp(stage)>>)
  /\ \E w \in Writes, chunk \in RespChunks :
       IF exchange(w, chunk).threw
         THEN StageDone(Null)
         ELSE /\ pc' = "poll"
              /\ i' = 0
              /\ UNCHANGED <<stage, shutterCount, stages>>
  /\ UNCHANGED harness
  /\ UNCHANGED <<opened, interfaceNumber, deviceInfo, thrown, outcome, retval, answers,
                 primary, caught>>

\* queryAndPollShutterProp: one poll iteration per step.
pollShutterPropStep(kept) ==
  /\ pc = "poll"
  /\ sendCommand(transactionId, PTP_OC_CANON_EOS_GetEvent, <<>>)
  /\ \E w \in Writes, empties \in EmptyReads, chunk \in EventChunks, resp \in RespChunks :
       LET evts == getCanonPropChanges(w, empties, chunk, resp)
           evt == FindValue(evts, {StageProp(stage)})
       IN  /\ Observe(kept, evts)
           /\ IF evt # Null THEN StageDone(evt)
              ELSE IF i + 1 < PollAttempts
                THEN /\ i' = i + 1
                     /\ UNCHANGED <<pc, stage, shutterCount, stages>>
              ELSE StageDone(Null)
  /\ UNCHANGED <<opened, interfaceNumber, deviceInfo, thrown, outcome, retval, answers,
                 primary, caught>>

pollShutterProp == pollShutterPropStep(FALSE)

\* getCanonShutterCount: the direct getDevicePropValue of stages 3 and 5.
directRead ==
  /\ pc = "direct"
  /\ sendCommand(transactionId, PTP_OC_GetDevicePropValue, <<StageProp(stage)>>)
  /\ \E w \in Writes, empties \in EmptyReads, chunk \in PropChunks, resp \in RespChunks :
       LET r == getDevicePropValue(w, empties, chunk, resp)
       IN  IF r.threw
             THEN /\ CanonThrow("getDevicePropValue")
                  /\ stages' = Append(stages, [stage |-> stage, yield |-> Null, threw |-> TRUE])
                  /\ stage' = 0
                  /\ UNCHANGED <<i, shutterCount>>
             ELSE StageDone(r.value) /\ UNCHANGED <<thrown, primary>>
  /\ UNCHANGED harness
  /\ UNCHANGED <<opened, interfaceNumber, deviceInfo, outcome, retval, answers, caught>>

\* closeSession sent after the Canon block even while an exception is pending.
afterCanonAlwaysClosesSession == "closeSession"

\* What follows the Canon try/finally once exitCanon has run: a pending
\* exception goes on propagating, otherwise closeSession is next.
afterCanon == IF thrown # NoError THEN getCameraInfoUnwind ELSE "closeSession"

\* Mutant: one try block around both exit commands, so a failure of the
\* first skips the second.
exitCanonNextSingleTry(threw) == IF threw THEN "skip" ELSE "exitCanon2"

\* exitCanon: what follows the first try/catch block, whether or not it threw.
exitCanonNext(threw) == "exitCanon2"

\* exitCanon, first try block: SetRemoteMode(1); a throw is caught and logged.
exitCanonRemoteMode ==
  /\ pc = "exitCanon1"
  /\ sendCommand(transactionId, PTP_OC_CANON_EOS_SetRemoteMode, <<RemoteModeOn>>)
  /\ \E w \in Writes, chunk \in RespChunks :
       LET threw == exchange(w, chunk).threw
       IN  /\ caught' = IF threw THEN caught \cup {"exitRemoteMode"} ELSE caught
           /\ pc' = IF exitCanonNext(threw) = "skip" THEN afterCanon ELSE exitCanonNext(threw)
  /\ UNCHANGED harness
  /\ UNCHANGED <<i, stage, opened, interfaceNumber, deviceInfo, shutterCount, thrown,
                 outcome, retval, stages, answers, primary>>

\* exitCanon, second try block: SetEventMode(0); a throw is caught and logged.
exitCanonEventMode ==
  /\ pc = "exitCanon2"
  /\ sendCommand(transactionId, PTP_OC_CANON_EOS_SetEventMode, <<EventModeOff>>)
  /\ \E w \in Writes, chunk \in RespChunks :
       caught' = IF exchange(w, chunk).threw THEN caught \cup {"exitEventMode"} ELSE caught
  /\ pc' = afterCanon
  /\ UNCHANGED harness
  /\ UNCHANGED <<i, stage, opened, interfaceNumber, deviceInfo, shutterCount, thrown,
                 outcome, retval, stages, answers, primary>>

\* --------------------------------------------------------------------- Fuji
\* The Fuji read is recorded in `stages` under a number of its own.
FujiStage == LastStage + 1

fujiRead ==
  /\ pc = "fuji"
  /\ sendCommand(transactionId, PTP_OC_GetDevicePropValue, <<PTP_DPC_FUJI_TotalShotCount>>)
  /\ \E w \in Writes, empties \in EmptyReads, chunk \in PropChunks, resp \in RespChunks :
       LET r == getDevicePropValue(w, empties, chunk, resp)
       IN  IF r.threw
             THEN /\ Throw("getDevicePropValue")
                  /\ stages' = Append(stages, [stage |-> FujiStage, yield |-> Null, threw |-> TRUE])
                  /\ UNCHANGED shutterCount
             ELSE /\ stages' = Append(stages, [stage |-> FujiStage, yield |-> r.value, threw |-> FALSE])
                  /\ shutterCount' = IF r.value # Null THEN ValueOf(r.value) ELSE shutterCount
                  /\ pc' = "closeSession"
                  /\ UNCHANGED <<thrown, primary>>
  /\ UNCHANGED harness
  /\ UNCHANGED <<i, stage, opened, interfaceNumber, deviceInfo, outcome, retval, answers, caught>>

\* ----------------------------------------------------------------- teardown
\* closeSession at line 574: its errors propagate like any other.
closeSession ==
  /\ pc = "closeSession"
  /\ sendCommand(transactionId, PTP_OC_CloseSession, <<>>)
  /\ \E w \in Writes, chunk \in RespChunks :
       IF exchange(w, chunk).threw
         THEN Throw("closeSession")
         ELSE pc' = "close" /\ UNCHANGED <<thrown, primary>>
  /\ UNCHANGED harness
  /\ UNCHANGED <<i, stage, opened, interfaceNumber, deviceInfo, shutterCount, outcome,
                 retval, stages, answers, caught>>

\* Outcomes of USBDevice.releaseInterface and USBDevice.close.
Releases == {"ok", "reject"}

\* PtpDevice.close: releaseInterface inside try/catch when the device is
\* opened and an interface number is held, then device.close() outside it.
close(rel, cl) ==
  /\ log' = Append(log, CloseEv)
  /\ caught' = IF opened /\ interfaceNumber # Null /\ rel = "reject"
                 THEN caught \cup {"releaseInterface"} ELSE caught
  /\ interfaceNumber' = Null
  /\ opened' = IF cl = "ok" THEN FALSE ELSE opened

\* ptp.close() at line 575, then the return statement at line 577.
closeAndReturn ==
  /\ pc = "close"
  /\ \E rel \in Releases, cl \in Releases :
       /\ close(rel, cl)
       /\ IF cl = "reject"
            THEN Throw("close") /\ UNCHANGED retval
            ELSE /\ retval' = [manufacturer |-> deviceInfo.manufacturer,
                               model |-> deviceInfo.model,
                               version |-> deviceInfo.version,
                               serial |-> deviceInfo.serial,
                               shutterCount |-> shutterCount]
                 /\ pc' = "finally"
                 /\ UNCHANGED <<thrown, primary>>
  /\ UNCHANGED harness
  /\ UNCHANGED <<i, stage, transactionId, deviceInfo, shutterCount, outcome, stages,
                 answers>>

\* The outer finally block: ptp.close() at line 585.  If it throws, its
\* exception replaces the pending return value or exception.
finallyClose ==
  /\ pc = "finally"
  /\ \E rel \in Releases, cl \in Releases :
       /\ close(rel, cl)
       /\ thrown' = IF cl = "reject" THEN "close" ELSE thrown
       /\ outcome' = IF cl = "reject" \/ thrown # NoError THEN "rejected" ELSE "resolved"
  /\ pc' = "done"
  /\ UNCHANGED harness
  /\ UNCHANGED <<i, stage, transactionId, deviceInfo, shutterCount, retval, stages,
                 answers, primary>>

Next ==
  \/ connect
  \/ openSession
  \/ openSessionClose
  \/ openSessionRetry
  \/ GetDeviceInfo
  \/ initCanon
  \/ drainShutterEvents
  \/ queryShutterProp
  \/ pollShutterProp
  \/ directRead
  \/ exitCanonRemoteMode
  \/ exitCanonEventMode
  \/ fujiRead
  \/ closeSession
  \/ closeAndReturn
  \/ finallyClose

Spec == Init /\ [][Next]_vars

\* ================================================================== claims
Cmds(seq) == {k \in 1..Len(seq) : seq[k].ev = "cmd"}
WithCode(seq, code) == {k \in Cmds(seq) : seq[k].code = code}
Closes(seq) == {k \in 1..Len(seq) : seq[k].ev = "close"}

\* Index of the GetDeviceInfo command, 0 when none was sent.
GdiIndex ==
  IF WithCode(log, PTP_OC_GetDeviceInfo) = {} THEN 0
  ELSE CHOOSE k \in WithCode(log, PTP_OC_GetDeviceInfo) : TRUE

\* openSession is over: it returned or threw.
OpenSessionOver == pc \notin {"connect", "openSession", "openSessionClose", "openSessionRetry"}

\* Commands sent by openSession: those before GetDeviceInfo.
OpenPhase(code) ==
  {k \in WithCode(log, code) : GdiIndex = 0 \/ k < GdiIndex}

\* C1: when the first OpenSession is answered RC_SessionAlreadyOpened,
\* openSession sends exactly one CloseSession and exactly one retried
\* OpenSession; if the retry is answered with a non-OK code, openSession
\* fails and no third OpenSession and no further CloseSession is sent.
C1_ConflictRetriesExactlyOnce ==
  (OpenSessionOver /\ answers # <<>> /\ answers[1] = PTP_RC_SessionAlreadyOpened)
    => /\ Cardinality(OpenPhase(PTP_OC_CloseSession)) = 1
       /\ Cardinality(OpenPhase(PTP_OC_OpenSession)) = 2
       /\ (Len(answers) = 2 /\ answers[2] # PTP_RC_OK)
            => /\ primary = "openSession"
               /\ Cardinality(WithCode(log, PTP_OC_OpenSession)) = 2
               /\ Cardinality(WithCode(log, PTP_OC_CloseSession)) = 1

\* C2: once the device is selected, PtpDevice.close() is called on every exit
\* path of getCameraInfo, whichever step failed, and no PTP command is sent
\* after the last close().
C2_ReleaseOnEveryExit ==
  pc = "done" => /\ Closes(log) # {}
                 /\ log[Len(log)].ev = "close"

\* C2 witness: an exit path on which the vendor strategy failed, released.
C2_Witness ==
  /\ pc = "done"
  /\ primary = "getDevicePropValue"
  /\ Closes(log) # {}

\* C3: a failure of CloseSession (sending it or reading its response) is
\* never escalated, neither at teardown nor in openSession's recovery.
C3_SessionCloseNeverEscalated == primary # "closeSession"

\* C4: a failure of the release is never raised to the caller: the caller
\* gets the original error when an earlier step failed and the result when
\* every earlier step succeeded.
C4_ReleaseNeverRaised ==
  pc = "done" =>
    IF primary # NoError
      THEN outcome = "rejected" /\ thrown = primary
      ELSE outcome = "resolved"

\* The Canon strategy was entered and its try/finally block is over.
CanonStarted == WithCode(log, PTP_OC_CANON_EOS_SetRemoteMode) # {}
CanonOver == CanonStarted /\ pc \in {"closeSession", "close", "finally", "done"}

CascadeCodes ==
  {PTP_OC_CANON_EOS_GetEvent, PTP_OC_CANON_EOS_RequestDevicePropValue,
   PTP_OC_GetDevicePropValue}
InitCodes ==
  {PTP_OC_CANON_EOS_SetRemoteMode, PTP_OC_CANON_EOS_SetEventMode,
   PTP_OC_CANON_EOS_SetRequestOLCInfoGroup, PTP_OC_CANON_EOS_PCHDDCapacity}

IsExitRemoteMode(e) ==
  e.ev = "cmd" /\ e.code = PTP_OC_CANON_EOS_SetRemoteMode /\ e.params = <<RemoteModeOn>>
IsExitEventMode(e) ==
  e.ev = "cmd" /\ e.code = PTP_OC_CANON_EOS_SetEventMode /\ e.params = <<EventModeOff>>

\* C5: on every Canon path SetRemoteMode(1) and then SetEventMode(0) are
\* both sent, in that order, after the last init/cascade command and before
\* the CloseSession of the teardown; a failure of the first does not prevent
\* the second, and neither failure is raised: what leaves the Canon block is
\* the exception of the try block, if any.
C5_CanonExitSequence ==
  CanonOver =>
    /\ \E k \in (GdiIndex + 1)..(Len(log) - 1) :
         /\ IsExitRemoteMode(log[k])
         /\ IsExitEventMode(log[k + 1])
         /\ \A j \in (GdiIndex + 1)..(k - 1) :
              /\ log[j].ev = "cmd"
              /\ log[j].code \in InitCodes \cup CascadeCodes
              /\ ~IsExitEventMode(log[j])
         /\ \A j \in (k + 2)..Len(log) :
              log[j].ev = "close" \/ log[j].code = PTP_OC_CloseSession
    /\ primary \in {NoError, "initCanon", "getDevicePropValue", "closeSession"}
    /\ (pc = "closeSession") => (thrown = NoError /\ primary = NoError)

\* C5 witness: the first exit command failed, the second was sent, and the
\* query went on to closeSession with no exception pending.
C5_Witness ==
  /\ CanonOver
  /\ pc = "closeSession"
  /\ caught = {"exitRemoteMode"}
  /\ IsExitEventMode(log[Len(log)])

\* Entries of `stages` that belong to the Canon cascade.
CascadeStages == {k \in 1..Len(stages) : stages[k].stage \in 1..LastStage}
Yielded(k) == ~stages[k].threw /\ stages[k].yield # Null

\* Parameters of the commands with `code`, in the order sent.
RECURSIVE ParamsOf(_, _)
ParamsOf(seq, code) ==
  IF seq = <<>> THEN <<>>
  ELSE IF Head(seq).ev = "cmd" /\ Head(seq).code = code
    THEN <<Head(seq).params>> \o ParamsOf(Tail(seq), code)
  ELSE ParamsOf(Tail(seq), code)

\* The property code the claim gives each request / direct-read stage.
ClaimedProp(st) ==
  IF st \in {2, 3} THEN PTP_DPC_CANON_EOS_ShutterCounter
  ELSE PTP_DPC_CANON_EOS_ShutterReleaseCounter

\* The RequestDevicePropValue / GetDevicePropValue parameters that the
\* stages `sts` of the given kinds account for.
RECURSIVE StageParams(_, _)
StageParams(sts, kinds) ==
  IF sts = <<>> THEN <<>>
  ELSE IF Head(sts) \in kinds
    THEN <<(<<ClaimedProp(Head(sts))>>)>> \o StageParams(Tail(sts), kinds)
  ELSE StageParams(Tail(sts), kinds)

\* Stages that have sent a command: the finished ones and, while polling,
\* the stage whose request went out.
StagesBegun ==
  [k \in 1..Len(stages) |-> stages[k].stage]
    \o (IF pc = "poll" THEN <<stage>> ELSE <<>>)

\* C6: the cascade stages run in the order 1..5, a stage is begun only if
\* every earlier stage yielded no value, the result is the value of the first
\* stage that yields one, and the only request / direct-read commands ever
\* sent are those of the stages begun (so nothing of a later stage follows a
\* value: after drain = no events and a first poll with the target change,
\* no GetDevicePropValue and no request for 0xD167 is sent).
C6_CascadeShortCircuit ==
  CanonStarted =>
    /\ \A k \in 1..Len(StagesBegun) : StagesBegun[k] = k
    /\ \A k \in CascadeStages : \A j \in 1..(k - 1) : ~Yielded(j)
    /\ \A k \in CascadeStages :
         Yielded(k) =>
           /\ k = Len(stages)
           /\ pc \notin {"drain", "request", "poll", "direct"}
           /\ shutterCount = ValueOf(stages[k].yield)
    /\ ParamsOf(log, PTP_OC_CANON_EOS_RequestDevicePropValue)
         = StageParams(StagesBegun, {2, 4})
    /\ ParamsOf(log, PTP_OC_GetDevicePropValue) = StageParams(StagesBegun, {3, 5})
    /\ (pc = "done" /\ outcome = "resolved" /\ CascadeStages # {}
          /\ Yielded(Len(stages)))
         => retval.shutterCount = ValueOf(stages[Len(stages)].yield)

\* C6 witness: drain found nothing, the first poll for 0xD1AC returned the
\* change, and the query resolved with that value.
C6_Witness ==
  /\ pc = "done"
  /\ outcome = "resolved"
  /\ stages = << [stage |-> 1, yield |-> Null, threw |-> FALSE],
                 [stage |-> 2, yield |-> Some(MaxValue), threw |-> FALSE] >>
  /\ retval.shutterCount = MaxValue
  /\ Cardinality(WithCode(log, PTP_OC_CANON_EOS_GetEvent)) = 2
  /\ WithCode(log, PTP_OC_GetDevicePropValue) = {}

\* C7: inside the Canon cascade a thrown failure of any property or event
\* read, the direct reads of stages 3 and 5 included, is swallowed: the
\* stage counts as no value and the query does not fail because of it.
C7_CascadeSwallowsReadFailures ==
  /\ \A k \in CascadeStages : ~stages[k].threw
  /\ CanonStarted => primary # "getDevicePropValue"

\* The init commands sent: the commands after GetDeviceInfo up to the first
\* command that is not the next init step.
RECURSIVE InitPrefix(_, _)
InitPrefix(seq, n) ==
  IF seq = <<>> \/ n > Len(InitSteps) THEN n - 1
  ELSE IF /\ Head(seq).ev = "cmd"
          /\ Head(seq).code = InitSteps[n].code
          /\ Head(seq).params = InitSteps[n].params
    THEN InitPrefix(Tail(seq), n + 1)
  ELSE n - 1

AfterGdi == SubSeq(log, GdiIndex + 1, Len(log))
InitSent == InitPrefix(AfterGdi, 1)

\* C8: Canon initialisation sends its four commands in order; if a step
\* throws, the remaining init steps and every cascade command are skipped
\* and getCameraInfo fails with that error; a non-OK response code does not
\* abort.
C8_InitAbortsOnThrow ==
  CanonStarted =>
    /\ primary = "initCanon" =>
         /\ \A c \in CascadeCodes : WithCode(log, c) = {}
         /\ stages = <<>>
         /\ CanonOver =>
              Cardinality(Cmds(log)) = GdiIndex + InitSent + 2
         /\ pc = "done" => (outcome = "rejected" /\ thrown = "initCanon")
    /\ (primary # "initCanon" /\ pc # "initCanon") => InitSent = Len(InitSteps)

\* The three ways the shutter count is unavailable without any error.
UnavailableCase ==
  /\ GdiIndex # 0
  /\ primary \notin {"getDeviceInfo", "initCanon", "getDevicePropValue"}
  /\ \/ vendorStrategy(deviceInfo) = "closeSession"
     \/ /\ vendorStrategy(deviceInfo) = "fuji"
        /\ stages = << [stage |-> FujiStage, yield |-> Null, threw |-> FALSE] >>
     \/ /\ vendorStrategy(deviceInfo) = "initCanon"
        /\ Len(stages) = LastStage
        /\ \A k \in 1..Len(stages) : ~stages[k].threw /\ stages[k].yield = Null

\* C9: when the vendor is unrecognised, the Fuji read yields no value or all
\* Canon stages yield no value, getCameraInfo returns normally with
\* shutterCount = -1 and the identity fields of the device info; -1 is
\* returned in no other case.
C9_UnavailableIsAValue ==
  pc = "done" =>
    /\ UnavailableCase =>
         /\ outcome = "resolved"
         /\ retval = [manufacturer |-> deviceInfo.manufacturer,
                      model |-> deviceInfo.model,
                      version |-> deviceInfo.version,
                      serial |-> deviceInfo.serial,
                      shutterCount |-> Unavailable]
    /\ (outcome = "resolved" /\ retval.shutterCount = Unavailable) => UnavailableCase

\* C10: every OpenSession command, the first one and the one of the
\* conflict retry, is sent with transaction id 0.
C10_OpenSessionCarriesIdZero ==
  \A k \in WithCode(log, PTP_OC_OpenSession) : log[k].tid = 0

\* C10 witness: the conflict path, two OpenSession commands around a
\* CloseSession that carried id 1.
C10_Witness ==
  /\ Cardinality(WithCode(log, PTP_OC_OpenSession)) = 2
  /\ \E k \in WithCode(log, PTP_OC_CloseSession) : log[k].tid = 1 /\ k = 2
  /\ pc = "getDeviceInfo"

\* The command sent before the command at index k of the log, 0 when none.
PrevCmd(k) ==
  LET before == {j \in Cmds(log) : j < k}
  IN  IF before = {} THEN 0
      ELSE CHOOSE j \in before : \A m \in before : m <= j

\* C11: every OpenSession command carries transaction id 0, every other
\* command carries the id of the command sent before it plus one, on every
\* path (cascade, swallowed errors, exit sequence), and the counter holds
\* the id of the last command sent.
C11_TransactionIdsConsecutive ==
  /\ \A k \in Cmds(log) :
       IF log[k].code = PTP_OC_OpenSession THEN log[k].tid = 0
       ELSE LET prev == PrevCmd(k)
            IN  prev # 0 /\ log[k].tid = log[prev].tid + 1
  /\ Cmds(log) # {} =>
       \E k \in Cmds(log) : /\ \A m \in Cmds(log) : m <= k
                            /\ transactionId = log[k].tid

\* C11 witness: a Canon query over, whose cascade swallowed a failed read,
\* whose exit sequence swallowed a failure, and whose teardown CloseSession
\* carried the id after all of them.
C11_Witness ==
  /\ pc = "done"
  /\ "exitRemoteMode" \in caught
  /\ Len(stages) = LastStage /\ stages[1].yield = Null
  /\ \E k \in WithCode(log, PTP_OC_CloseSession) :
       /\ k > GdiIndex /\ GdiIndex # 0
       /\ log[k].tid = Cardinality({j \in Cmds(log) : j < k})
       /\ log[k].tid > 10

\* The device info was obtained and names Fuji as the vendor.
FujiSelected == vendorId(deviceInfo) = PTP_VENDOR_FUJI
CanonOnlyCodes ==
  {PTP_OC_CANON_EOS_SetRemoteMode, PTP_OC_CANON_EOS_SetEventMode,
   PTP_OC_CANON_EOS_GetEvent, PTP_OC_CANON_EOS_PCHDDCapacity,
   PTP_OC_CANON_EOS_RequestDevicePropValue,
   PTP_OC_CANON_EOS_SetRequestOLCInfoGroup}

\* C12: on the Fuji path no Canon-only command is ever sent, and once the
\* read is over exactly one GetDevicePropValue, for property 0xD310, was
\* sent: right after GetDeviceInfo and before any CloseSession that follows.
C12_FujiSingleRead ==
  FujiSelected =>
    /\ \A k \in Cmds(log) : log[k].code \notin CanonOnlyCodes
    /\ pc = "fuji" => WithCode(log, PTP_OC_GetDevicePropValue) = {}
    /\ pc # "fuji" =>
         /\ WithCode(log, PTP_OC_GetDevicePropValue) = {GdiIndex + 1}
         /\ log[GdiIndex + 1].params = <<PTP_DPC_FUJI_TotalShotCount>>
         /\ \A k \in WithCode(log, PTP_OC_CloseSession) :
              k > GdiIndex => k = GdiIndex + 2

\* C12 witness: a Fuji query that read a count and closed its session.
C12_Witness ==
  /\ FujiSelected
  /\ pc = "done" /\ outcome = "resolved"
  /\ retval.shutterCount # Unavailable
  /\ \E k \in WithCode(log, PTP_OC_CloseSession) : k = GdiIndex + 2

\* ---------------------------------------------------- vendor dispatch alone
\* The dispatch of getCameraInfo applied to device infos a query of this
\* model does not deliver: manufacturer names in several spellings, alone
\* and in pairs, with every vendor-extension id.
\* "canon", "CANON", "Canon", "cAnOn", "cano", "fuji", "FUJI", "Fuji",
\* "fuj", "Nikon", "@CANON[" and the empty string.
Words ==
  {<<99, 97, 110, 111, 110>>, <<67, 65, 78, 79, 78>>, <<67, 97, 110, 111, 110>>,
   <<99, 65, 110, 79, 110>>, <<99, 97, 110, 111>>,
   <<102, 117, 106, 105>>, <<70, 85, 74, 73>>, <<70, 117, 106, 105>>,
   <<102, 117, 106>>, <<78, 105, 107, 111, 110>>,
   <<64, 67, 65, 78, 79, 78, 91>>, <<>>}
DispatchManufacturers == Words \cup {a \o <<32>> \o b : a \in Words, b \in Words}
DispatchInputs ==
  {DeviceInfo(ext, man) : ext \in VendorExtensionIds \cup {0}, man \in DispatchManufacturers}

InitDispatch == ApplyInit("vendorStrategy", DispatchInputs)
applyVendorStrategy == Apply("vendorStrategy", vendorStrategy(input))
SpecDispatch == InitDispatch /\ [][applyVendorStrategy]_vars

\* `str` contains the lower-case ASCII word `word` in any mix of cases.
ContainsAnyCase(str, word) ==
  \E k \in 0..(Len(str) - Len(word)) :
    \A j \in 1..Len(word) : str[k + j] \in {word[j], word[j] - 32}

\* C13 as stated: the Canon strategy is chosen whenever the manufacturer
\* contains 'canon' in any case or the vendor-extension id is 0x0B, for
\* every combination of the two.
C13_CanonWhenNameOrId ==
  output.applied =>
    ((ContainsAnyCase(input.manufacturer, canon) \/ input.vendorExtensionId = 11)
       => output.result = "initCanon")

\* C13 amended: the Canon strategy is chosen exactly when the manufacturer
\* contains 'canon' in any case, or contains neither 'canon' nor 'fuji' in
\* any case while the vendor-extension id is 0x0B.
C13_CanonDispatch ==
  output.applied =>
    (output.result = "initCanon"
       <=> \/ ContainsAnyCase(input.manufacturer, canon)
           \/ /\ ~ContainsAnyCase(input.manufacturer, fuji)
              /\ input.vendorExtensionId = 11)

\* C13 witness: a mixed-case Canon name next to a Fuji name, with the Fuji
\* vendor-extension id, dispatched to the Canon strategy.
C13_Witness ==
  /\ output.applied /\ output.result = "initCanon"
  /\ input.manufacturer = <<70, 85, 74, 73>> \o <<32>> \o <<99, 65, 110, 79, 110>>
  /\ input.vendorExtensionId = 14

\* ------------------------------------------------------ receiveData alone
\* receiveData applied to every script of one more chunk than the header
\* loop has attempts, each chunk rejected, empty, too short for a header, a
\* Command, Response or Data header.
HeaderChunks ==
  BadHeaders \cup {Chunk(PTP_HEADER_SIZE, PTP_USB_CONTAINER_RESPONSE, PTP_RC_OK, 0, <<>>),
                   Chunk(PropValueMinLength, PTP_USB_CONTAINER_DATA,
                         PTP_OC_GetDevicePropValue, MaxValue, <<>>)}
HeaderScripts == [1..(HeaderAttempts + 1) -> HeaderChunks]

InitReceiveData == ApplyInit("receiveData", HeaderScripts)
applyReceiveData == Apply("receiveData", receiveDataScript(input))
SpecReceiveData == InitReceiveData /\ [][applyReceiveData]_vars

\* Number of empty chunks at the head of a script.
LeadingEmpties(script) ==
  Cardinality({n \in 1..Len(script) : \A m \in 1..n : script[m] = EmptyChunk})

\* A chunk receiveData accepts as the container: a Data or Response header.
IsContainer(chunk) ==
  /\ chunk.k = "pkt" /\ chunk.byteLength >= 12
  /\ chunk.type \in {2, 3}

\* C14 as stated: a container that arrives after up to 3 empty reads is
\* accepted, and the exchange fails for want of a chunk only after that.
C14_ThreeEmptyReadsTolerated ==
  output.applied =>
    \A n \in 0..3 :
      (LeadingEmpties(input) = n /\ IsContainer(input[n + 1]))
        => ~output.result.threw /\ output.result.view = input[n + 1]

\* C14 amended: receiveData makes at most 3 header reads, stopping at the
\* first one that is not empty; the chunk of that read is the header, so a
\* container that arrives after up to 2 empty reads is accepted; when all
\* 3 reads are empty the exchange fails, whatever the device holds next.
C14_ThreeHeaderReads ==
  output.applied =>
    LET n == LeadingEmpties(input)
        r == output.result
    IN  /\ Len(r.ins) = (IF n < 3 THEN n + 1 ELSE 3)
        /\ \A m \in 1..Len(r.ins) : r.ins[m] = 1024
        /\ (n <= 2 /\ IsContainer(input[n + 1]))
             => ~r.threw /\ r.view = input[n + 1]
        /\ (n <= 2 /\ ~IsContainer(input[n + 1])) => r.threw
        /\ n >= 3 => r.threw

\* C14 witness: two empty reads, then a Data container, accepted on the
\* third read.
C14_Witness ==
  /\ output.applied /\ ~output.result.threw
  /\ LeadingEmpties(input) = 2
  /\ output.result.view.type = 2
  /\ Len(output.result.ins) = 3

\* ----------------------------------------------- getDevicePropValue alone
\* getDevicePropValue after its sendCommand, applied to every outcome of
\* the write, every number of empty reads, every first chunk and every
\* chunk read as the response.
PropValueInputs ==
  [w : Writes, empties : EmptyReads, chunk : PropChunks, resp : RespChunks]

InitGetDevicePropValue == ApplyInit("getDevicePropValue", PropValueInputs)
applyGetDevicePropValue ==
  Apply("getDevicePropValue",
        getDevicePropValue(input.w, input.empties, input.chunk, input.resp))
SpecGetDevicePropValue == InitGetDevicePropValue /\ [][applyGetDevicePropValue]_vars

\* The chunk the header loop ends on is a container of type `t`.
Arrives(t) ==
  /\ input.w = "ok" /\ input.empties <= 2
  /\ input.chunk.k = "pkt" /\ input.chunk.byteLength >= 12
  /\ input.chunk.type = t

\* The reads made with the length receiveResponse asks for.
ResponseReads(ins) == {m \in 1..Len(ins) : ins[m] = 512}

\* C15: a Response container in place of the Data container yields null
\* without an error and without a further read; after a Data container
\* exactly one response read follows, as the last read; a value is returned
\* only for a Data container of at least 16 bytes followed by a response
\* whose code is OK, and it is the value the container carries.
C15_PropValueContainers ==
  output.applied =>
    LET r == output.result
    IN  /\ Arrives(3) =>
             /\ ~r.threw /\ r.value = Null
             /\ ResponseReads(r.ins) = {}
             /\ Len(r.ins) = input.empties + 1
        /\ Arrives(2) => ResponseReads(r.ins) = {Len(r.ins)}
        /\ r.value # Null =>
             /\ Arrives(2) /\ input.chunk.byteLength >= 12 + 4
             /\ input.resp.k = "pkt" /\ input.resp.byteLength >= 12
             /\ input.resp.code = 8193
             /\ r.value = {input.chunk.value}

\* C15 witness: a Response container carrying a non-OK code arrived after
\* an empty read where the Data container was expected.
C15_Witness ==
  /\ output.applied /\ Arrives(3)
  /\ input.empties = 1 /\ input.chunk.code # 8193
  /\ output.result.value = Null /\ ~output.result.threw
  /\ Len(output.result.ins) = 2

\* ------------------------------------------- parseCanonPropChanges alone
\* The decoder applied to GetEvent containers built from up to MaxRecords
\* records, whole or with the last bytes cut off.  A record is written as
\* its size, type, property code and value (four u32) cut or zero-padded to
\* its declared size; a record declaring fewer than 8 bytes takes 8.
MaxRecords == 2
RecordLength(r) == IF r.size < EventHeaderSize THEN EventHeaderSize ELSE r.size
EncodeRecord(r) ==
  SubSeq(U32(r.size) \o U32(r.type) \o U32(r.propCode) \o U32(r.value)
           \o [j \in 1..RecordLength(r) |-> 0],
         1, RecordLength(r))

RECURSIVE EncodeRecords(_)
EncodeRecords(recs) ==
  IF recs = <<>> THEN <<>> ELSE EncodeRecord(Head(recs)) \o EncodeRecords(Tail(recs))

OtherEvent == PTP_EC_CANON_EOS_PropValueChanged + 1
EventRecords ==
  {Change(p, v) : p \in CAPTURED_PROP_CHANGES \cup {UnwatchedProp}, v \in Values}
    \cup {Rec(EventValueMinSize + 4, PTP_EC_CANON_EOS_PropValueChanged,
              PTP_DPC_CANON_EOS_ShutterCounter, MaxValue),
          Rec(EventHeaderSize + 4, PTP_EC_CANON_EOS_PropValueChanged,
              PTP_DPC_CANON_EOS_ShutterReleaseCounter, 0),
          Rec(EventHeaderSize, PTP_EC_CANON_EOS_PropValueChanged, 0, 0),
          Rec(EventHeaderSize, OtherEvent, 0, 0),
          Rec(EventValueMinSize, OtherEvent, PTP_DPC_CANON_EOS_ShutterCounter, MaxValue),
          Terminator,
          Rec(EventHeaderSize - 4, PTP_EC_CANON_EOS_PropValueChanged, 0, 0)}
RecordLists == UNION {[1..n -> EventRecords] : n \in 0..MaxRecords}
Cuts == {0, 4, 8}

\* The container the device sends for `recs`, without its last `cut` bytes
\* (never cutting into the 12-byte header).
EventView(recs, cut) ==
  LET bytes == Container(PTP_USB_CONTAINER_DATA, PTP_OC_CANON_EOS_GetEvent, 1,
                         EncodeRecords(recs))
      keep == IF Len(bytes) - cut < PTP_HEADER_SIZE THEN PTP_HEADER_SIZE ELSE Len(bytes) - cut
  IN  View(SubSeq(bytes, 1, keep))

EventInputs == [recs : RecordLists, cut : Cuts]
InitParseCanonPropChanges == ApplyInit("parseCanonPropChanges", EventInputs)
applyParseCanonPropChanges ==
  Apply("parseCanonPropChanges",
        parseCanonPropChangesBytes(EventView(input.recs, input.cut)))
SpecParseCanonPropChanges ==
  InitParseCanonPropChanges /\ [][applyParseCanonPropChanges]_vars

\* Offset of record k in the buffer, each earlier record taking its
\* declared size.
RECURSIVE RecordOffset(_, _)
RecordOffset(recs, k) ==
  IF k = 1 THEN 12 ELSE RecordOffset(recs, k - 1) + recs[k - 1].size

\* Record k is one the claim says decoding stops at, in a buffer of
\* `total` bytes: its header is cut, its size is under 8, it is the
\* size-8 type-0 sentinel, or its declared size exceeds what remains.
StopsAt(recs, k, total) ==
  \/ RecordOffset(recs, k) + 8 > total
  \/ recs[k].size < 8
  \/ recs[k].size = 8 /\ recs[k].type = 0
  \/ RecordOffset(recs, k) + recs[k].size > total

\* The records before the stop point.
BeforeStop(recs, total) ==
  {k \in 1..Len(recs) : \A m \in 1..k : ~StopsAt(recs, m, total)}

\* The result the claim describes: the changes among them, in order.
RECURSIVE ClaimedChanges(_, _, _)
ClaimedChanges(recs, total, k) ==
  IF k \notin BeforeStop(recs, total) THEN <<>>
  ELSE (IF /\ recs[k].type = 49545
           /\ recs[k].propCode \in {53676, 53607}
           /\ recs[k].size >= 16
          THEN <<[propCode |-> recs[k].propCode, value |-> recs[k].value]>>
          ELSE <<>>)
       \o ClaimedChanges(recs, total, k + 1)

\* C16: decoding stops at the first record of size under 8, at the size-8
\* type-0 sentinel, or at a record whose declared size exceeds the rest of
\* the buffer; every other record is stepped over by its declared size;
\* the result is, in order, exactly the PropValueChanged records before the
\* stop point with a watched property code and size at least 16.
C16_EventDecoding ==
  output.applied =>
    /\ ~output.result.threw
    /\ output.result.changes
         = ClaimedChanges(input.recs, EventView(input.recs, input.cut).byteLength, 1)

\* ---------------------------------------------------- parsePtpString alone
\* The decoder applied at the end of `before` to a count byte followed by
\* the code units `units` and `extra` more bytes: with fewer units than the
\* count says the buffer ends inside the string (after a whole code unit or
\* after half of one), with more the buffer goes on after it.
\* The code units are NUL, 'A', 'B', 'C' and U+3042.
MaxChars == 4
StringUnits == {0, 65, 66, 67, 12354}
StringInputs ==
  [before : {<<>>, <<7>>},
   count : 0..MaxChars,
   units : UNION {[1..n -> StringUnits] : n \in 0..MaxChars},
   extra : {<<>>, <<66>>}]
StringView(in) == View(in.before \o <<in.count>> \o CodeUnits(in.units) \o in.extra)

InitParsePtpString == ApplyInit("parsePtpString", StringInputs)
applyParsePtpString ==
  Apply("parsePtpString", parsePtpString(StringView(input), Len(input.before)))
SpecParsePtpString == InitParsePtpString /\ [][applyParsePtpString]_vars

\* The non-NUL code units among the first n of `units`, in order.
RECURSIVE NonNul(_, _)
NonNul(units, n) ==
  IF n = 0 \/ units = <<>> THEN <<>>
  ELSE (IF Head(units) # 0 THEN <<Head(units)>> ELSE <<>>) \o NonNul(Tail(units), n - 1)

\* C17: a count of 0 gives the empty string and advances the offset by 1;
\* a count n > 0 gives the non-NUL code units among the n (those the buffer
\* holds, when it ends inside the string) in order and advances by 1 + 2n.
C17_PtpStringDecoding ==
  output.applied =>
    LET r == output.result
        at == Len(input.before)
    IN  IF input.count = 0
          THEN r.text = <<>> /\ r.newOffset = at + 1
          ELSE /\ r.text = NonNul(input.units, input.count)
               /\ r.newOffset = at + 1 + 2 * input.count

\* C17 witness: count 4 with 'A', 'B', 'C', NUL decoded as "ABC", the
\* offset advanced by 9.
C17_Witness ==
  /\ output.applied
  /\ input.count = 4 /\ input.units = <<65, 66, 67, 0>> /\ input.before = <<7>>
  /\ output.result = [text |-> <<65, 66, 67>>, newOffset |-> 10]

\* --------------------------------------------------- parseDeviceInfo alone
\* The parser applied to GetDeviceInfo data containers a device sends
\* whole, and to every shorter payload of at least the 12 header bytes that
\* is the beginning of one.
InfoDescriptions == {<<>>, <<120>>}
InfoOperations == {<<>>, <<PTP_OC_GetDeviceInfo, PTP_OC_OpenSession>>}
InfoInputs ==
  UNION {{[info |-> d, desc |-> s, ops |-> o, length |-> n]
            : n \in PTP_HEADER_SIZE..Len(DeviceInfoContainer(d, s, o))}
           : d \in DeviceInfos, s \in InfoDescriptions, o \in InfoOperations}
InfoView(in) ==
  View(SubSeq(DeviceInfoContainer(in.info, in.desc, in.ops), 1, in.length))

InitParseDeviceInfo == ApplyInit("parseDeviceInfo", InfoInputs)
applyParseDeviceInfo == Apply("parseDeviceInfo", parseDeviceInfo(InfoView(input)))
SpecParseDeviceInfo == InitParseDeviceInfo /\ [][applyParseDeviceInfo]_vars

\* `str` is `whole`, or `whole` cut short.
TruncationOf(str, whole) ==
  Len(str) <= Len(whole) /\ str = SubSeq(whole, 1, Len(str))

\* C18: for every payload of at least 12 bytes parseDeviceInfo returns a
\* DeviceInfo instead of raising, its identity strings whole, truncated or
\* empty.
C18_ShortPayloadNeverFails ==
  output.applied =>
    /\ ~output.result.threw
    /\ TruncationOf(output.result.info.manufacturer, input.info.manufacturer)
    /\ TruncationOf(output.result.info.model, input.info.model)
    /\ TruncationOf(output.result.info.version, input.info.version)
    /\ TruncationOf(output.result.info.serial, input.info.serial)

\* The first OpenSession was answered with a code that is neither RC_OK
\* nor RC_SessionAlreadyOpened.
FirstOpenRefused ==
  answers # <<>> /\ answers[1] \notin {8193, 8222}

\* C19: when the first OpenSession is answered with a non-OK code other
\* than RC_SessionAlreadyOpened, openSession fails at once: no CloseSession,
\* no second OpenSession, nothing else is sent, and getCameraInfo fails
\* with openSession's error.
C19_RefusedOpenFailsAtOnce ==
  FirstOpenRefused =>
    /\ Cardinality(Cmds(log)) = 1
    /\ WithCode(log, PTP_OC_OpenSession) = {1}
    /\ pc \in {"finally", "done"}
    /\ primary = "openSession"
    /\ pc = "done" => outcome = "rejected" /\ thrown = "openSession"

\* The commands the claim gates on an open session, and the vendor
\* commands among them.
VendorCodes == CanonOnlyCodes \cup {PTP_OC_GetDevicePropValue}
GatedCodes == VendorCodes \cup {PTP_OC_GetDeviceInfo}

\* The session is Open when the command at index k is sent: an OpenSession
\* precedes it, every OpenSession sent was answered and the last answer is
\* RC_OK, and every CloseSession sent before k precedes that OpenSession.
SessionOpenAt(k) ==
  /\ \E o \in WithCode(log, PTP_OC_OpenSession) :
       /\ o < k
       /\ \A j \in WithCode(log, PTP_OC_OpenSession) \cup WithCode(log, PTP_OC_CloseSession) :
            j < k => j <= o
  /\ Len(answers) = Cardinality(WithCode(log, PTP_OC_OpenSession))
  /\ answers[Len(answers)] = 8193

\* C20: GetDeviceInfo, GetDevicePropValue and the Canon vendor commands are
\* sent only while the session is Open; vendor commands are sent only after
\* GetDeviceInfo, and never when opening the session or retrieving the
\* device info failed.
C20_SessionGating ==
  /\ \A k \in Cmds(log) : log[k].code \in GatedCodes => SessionOpenAt(k)
  /\ \A k \in Cmds(log) :
       log[k].code \in VendorCodes =>
         /\ GdiIndex # 0 /\ GdiIndex < k
         /\ primary \notin {"connect", "openSession", "getDeviceInfo"}
  /\ (primary = "closeSession" /\ GdiIndex = 0) =>
       \A k \in Cmds(log) : log[k].code \notin GatedCodes

\* C20 witness: a Canon query on the conflict path, its vendor commands
\* sent between the retried OpenSession answered RC_OK and the teardown
\* CloseSession.
C20_Witness ==
  /\ pc = "done" /\ outcome = "resolved"
  /\ answers = <<8222, 8193>>
  /\ CanonStarted
  /\ \E k \in WithCode(log, PTP_OC_CloseSession) :
       \A j \in Cmds(log) : log[j].code \in VendorCodes => j < k /\ j > 3

\* ------------------------------------------------- the Canon cascade alone
\* getCanonShutterCount from the state a Canon query is in when initCanon
\* has returned, with the events each poll decoded kept in `input` until
\* the next poll.
CascadeLog ==
  <<Cmd(PTP_OC_OpenSession, 0, <<SessionId>>), Cmd(PTP_OC_GetDeviceInfo, 1, <<>>)>>
    \o [n \in 1..Len(InitSteps) |-> Cmd(InitSteps[n].code, n + 1, InitSteps[n].params)]

InitCascade ==
  /\ pc = "drain"
  /\ i = 0
  /\ stage = 1
  /\ transactionId = Len(CascadeLog) - 1
  /\ opened = TRUE
  /\ interfaceNumber = Some(0)
  /\ deviceInfo = DeviceInfo(PTP_VENDOR_CANON, <<67, 97, 110, 111, 110>>)
  /\ shutterCount = Unavailable
  /\ thrown = NoError
  /\ outcome = "pending"
  /\ retval = NoCameraInfo
  /\ log = CascadeLog
  /\ stages = <<>>
  /\ answers = <<PTP_RC_OK>>
  /\ primary = NoError
  /\ caught = {}
  /\ input = <<>>
  /\ output = NotApplied

drainShutterEventsObserved == drainShutterEventsStep(TRUE)
pollShutterPropObserved == pollShutterPropStep(TRUE)

NextCascade ==
  \/ drainShutterEventsObserved
  \/ queryShutterProp
  \/ pollShutterPropObserved
  \/ directRead
SpecCascade == InitCascade /\ [][NextCascade]_vars

\* The value of the first change of `evts` for one of `codes`, as a set:
\* empty when there is none.
FirstChange(evts, codes) ==
  LET hits == {k \in 1..Len(evts) : evts[k].propCode \in codes}
  IN  IF hits = {} THEN {}
      ELSE {evts[CHOOSE k \in hits : \A m \in hits : k <= m].value}

\* The step ends the current stage, which returns `v` without raising.
StageReturns(v) ==
  /\ stages' = Append(stages, [stage |-> stage, yield |-> v, threw |-> FALSE])
  /\ pc' # "drain" /\ pc' # "poll"
  /\ thrown' = NoError

\* The step sends one command, with the given code.
SendsOne(code) ==
  /\ Len(log') = Len(log) + 1
  /\ log'[Len(log')].ev = "cmd" /\ log'[Len(log')].code = code

\* A poll of the drain stage, `input'` being the events it decoded: it is
\* one of at most 5, sends one GetEvent, returns the value of the first
\* change for 0xD1AC or 0xD167 if there is one, returns no value if there
\* are no events (or after the fifth poll), and polls again otherwise.
DrainPoll ==
  /\ i < 5
  /\ SendsOne(37142)
  /\ IF FirstChange(input', {53676, 53607}) # {}
       THEN StageReturns(FirstChange(input', {53676, 53607}))
     ELSE IF input' = <<>> \/ i = 4 THEN StageReturns({})
     ELSE i' = i + 1 /\ pc' = "drain" /\ stages' = stages /\ thrown' = NoError

\* C21: the drain stage polls GetEvent at most 5 times, returns the value
\* of the first shutter-counter or shutter-release-counter change it
\* observes, returns no value as soon as a poll gives zero events, and
\* never raises.
C21_DrainStage == [][pc = "drain" => DrainPoll]_vars

\* C21 witness: the drain stage was given a 0xD167 change followed by a
\* 0xD1AC change of another value, and returned the first.
C21_Witness ==
  /\ Len(stages) = 1 /\ stages[1].stage = 1
  /\ Len(input) = 2
  /\ input[1].propCode = 53607 /\ input[2].propCode = 53676
  /\ input[1].value # input[2].value
  /\ stages[1].yield = {input[1].value}

\* The first step of a request+poll stage: one RequestDevicePropValue for
\* the stage's code is sent; the polls follow if its response was read,
\* the stage returns no value if that raised.
RequestStep ==
  /\ SendsOne(37159)
  /\ log'[Len(log')].params = <<ClaimedProp(stage)>>
  /\ \/ pc' = "poll" /\ i' = 0 /\ stages' = stages /\ stage' = stage /\ thrown' = NoError
     \/ StageReturns({}) /\ pc' = "direct"

\* A poll of a request+poll stage, `input'` being the events it decoded:
\* it is one of at most 5, sends one GetEvent, returns the value of the
\* first change for the requested code if there is one, returns no value
\* after the fifth poll, and polls again otherwise; no request is sent
\* again.
PollStep ==
  /\ i < 5
  /\ SendsOne(37142)
  /\ IF FirstChange(input', {ClaimedProp(stage)}) # {}
       THEN StageReturns(FirstChange(input', {ClaimedProp(stage)})) /\ pc' = "exitCanon1"
     ELSE IF i = 4 THEN StageReturns({}) /\ pc' = "direct"
     ELSE i' = i + 1 /\ pc' = "poll" /\ stages' = stages /\ stage' = stage
            /\ thrown' = NoError

\* C22: a request+poll stage sends exactly one RequestDevicePropValue for
\* its code, then polls GetEvent at most 5 times; it returns the value of
\* the first change observed for the requested code, never one for the
\* other watched code, and yields no value after 5 polls without a match
\* or when an error is thrown.
C22_RequestPollStage ==
  [][(pc = "request" => RequestStep) /\ (pc = "poll" => PollStep)]_vars

\* C22 witness: the stage for 0xD1AC was given a 0xD167 change followed by
\* a 0xD1AC change of another value, and returned the second.
C22_Witness ==
  /\ Len(stages) = 2 /\ stages[2].stage = 2
  /\ Len(input) = 2
  /\ input[1].propCode = 53607 /\ input[2].propCode = 53676
  /\ input[1].value # input[2].value
  /\ stages[2].yield = {input[2].value}

\* ------------------------------------------------- receiveData, partial reads
\* receiveData applied to a Data container that arrives in pieces: the
\* container declares 12 + `payload` bytes, the first chunk brings the
\* header and `first` payload bytes, and every later transfer is rejected,
\* empty, or brings up to MaxPayload - 1 bytes, each chunk with bytes of its own.
MaxPayload == 3
PartialSizes == (0 - 1)..(MaxPayload - 1)

PartialChunk(n, size) ==
  IF size < 0 THEN Reject
  ELSE IF size = 0 THEN EmptyChunk
  ELSE ByteChunk([j \in 1..size |-> 16 * n + j])

PartialScript(payload, first, sizes) ==
  <<ByteChunk(SubSeq(Container(PTP_USB_CONTAINER_DATA, PTP_OC_GetDevicePropValue, 1,
                               [j \in 1..payload |-> j]),
                     1, PTP_HEADER_SIZE + first))>>
    \o [n \in 1..MaxPayload |-> PartialChunk(n, sizes[n])]

PartialScripts ==
  { PartialScript(s.payload, s.first, s.sizes) :
      s \in { t \in [payload : 0..MaxPayload, first : 0..MaxPayload,
                     sizes : [1..MaxPayload -> PartialSizes]] :
              t.first <= t.payload } }

InitReceivePartial == ApplyInit("receiveDataPartial", PartialScripts)
applyReceivePartial == Apply("receiveDataPartial", receiveDataScript(input))
SpecReceivePartial == InitReceivePartial /\ [][applyReceivePartial]_vars

\* The transfers that follow the first chunk while `remaining` bytes are
\* missing: what each is asked for and what it brings.
RECURSIVE Arrivals(_, _, _)
Arrivals(script, at, remaining) ==
  IF remaining = 0 \/ at > Len(script) THEN <<>>
  ELSE LET c == script[at]
           got == IF c.k = "pkt" /\ c.byteLength > 0
                    THEN SubSeq(c.bytes, 1,
                                IF c.byteLength < remaining THEN c.byteLength ELSE remaining)
                    ELSE <<>>
           this == [asked |-> remaining, bytes |-> got, rejected |-> c.k = "reject"]
       IN  IF got = <<>> THEN <<this>>
           ELSE <<this>> \o Arrivals(script, at + 1, remaining - Len(got))

RECURSIVE ArrivedBytes(_)
ArrivedBytes(arrivals) ==
  IF arrivals = <<>> THEN <<>>
  ELSE Head(arrivals).bytes \o ArrivedBytes(Tail(arrivals))

\* The first chunk is a Data header shorter than the length it declares.
ShortDataHeader(chunk) ==
  /\ chunk.type = 2
  /\ chunk.byteLength >= 12
  /\ chunk.byteLength < chunk.length

\* C23: when the first chunk is a Data container header shorter than the
\* declared length, further chunks are read, each asked for exactly the
\* bytes still missing, until the declared length is gathered or an empty
\* chunk arrives; there is at most one such read per missing byte, so the
\* loop ends; unless a transfer is rejected, the returned container has
\* exactly the declared length and holds the first chunk followed by the
\* later chunks in arrival order, without gaps, zero-filled after them.
C23_PartialReads ==
  (output.applied /\ ShortDataHeader(input[1])) =>
    LET header == input[1]
        missing == header.length - header.byteLength
        arrivals == Arrivals(input, 2, missing)
        gathered == header.bytes \o ArrivedBytes(arrivals)
        r == output.result
    IN  /\ r.ins = <<1024>> \o [n \in 1..Len(arrivals) |-> arrivals[n].asked]
        /\ Len(arrivals) <= missing
        /\ Len(r.ins) <= Len(input)
        /\ r.threw = (\E n \in 1..Len(arrivals) : arrivals[n].rejected)
        /\ ~r.threw =>
             /\ r.view.byteLength = header.length
             /\ r.view.bytes =
                  gathered \o [j \in 1..(header.length - Len(gathered)) |-> 0]
             /\ (arrivals[Len(arrivals)].bytes # <<>>) => Len(gathered) = header.length

\* C23 witness: a header chunk without payload, then a chunk of one byte and
\* a chunk of two bytes, gathered into a container of the declared 15 bytes.
C23_Witness ==
  /\ output.applied /\ ~output.result.threw
  /\ ShortDataHeader(input[1]) /\ input[1].byteLength = 12
  /\ output.result.ins = <<1024, 3, 2>>
  /\ output.result.view.byteLength = 15
  /\ SubSeq(output.result.view.bytes, 13, 15) = <<17, 33, 34>>

\* ------------------------------------------------------- GetEvent commands
GetEvents == WithCode(log, PTP_OC_CANON_EOS_GetEvent)

\* The GetEvent commands of the drain stage: those sent before any
\* RequestDevicePropValue.
DrainPolls ==
  {k \in GetEvents :
     \A m \in WithCode(log, PTP_OC_CANON_EOS_RequestDevicePropValue) : k < m}

\* The drain stage has returned.
DrainOver == \E n \in 1..Len(stages) : stages[n].stage = 1

\* C24: the drain stage sends exactly one GetEvent command: its loop never
\* starts a second iteration, so once the stage is over the log holds one
\* GetEvent ahead of the first RequestDevicePropValue; a query sends at most
\* 11 GetEvent commands in all, one of the drain stage and at most 5 of
\* each request+poll stage.
C24_OneDrainPoll ==
  LET sent == Cardinality(GetEvents)
      drained == Cardinality(DrainPolls)
  IN  /\ pc = "drain" => i = 0
      /\ drained = (IF DrainOver THEN 1 ELSE 0)
      /\ sent <= 11
      /\ sent - drained <= 2 * PollAttempts

\* C24 witness: a cascade that went through all its stages and polled 5
\* times in each request+poll stage: 11 GetEvent commands, one of them
\* ahead of the first RequestDevicePropValue.
C24_Witness ==
  /\ pc = "done"
  /\ Len(stages) = LastStage
  /\ Cardinality(GetEvents) = 11
  /\ Cardinality(DrainPolls) = 1

\* ------------------------------------------------ CloseSession at teardown
\* The CloseSession of line 574: the one sent after GetDeviceInfo (the one
\* of openSession's conflict recovery precedes it).
TeardownCloseSessions ==
  {k \in WithCode(log, PTP_OC_CloseSession) : GdiIndex # 0 /\ k > GdiIndex}

\* The steps between openSession and the teardown.
StepsAfterOpenSession == {"getDeviceInfo", "initCanon", "getDevicePropValue"}

\* C25: CloseSession is sent at teardown only when every earlier step
\* succeeded: at most once, and then no step before it threw.  When a step
\* after a successful openSession throws (GetDeviceInfo, the Canon
\* initialization, a direct property read of the Canon cascade or of the Fuji
\* path), getCameraInfo rejects and PtpDevice.close() is called without a
\* CloseSession having been sent since the session was opened.
C25_CloseSessionOnSuccessOnly ==
  /\ Cardinality(TeardownCloseSessions) <= 1
  /\ TeardownCloseSessions # {} =>
       /\ primary \in {NoError, "closeSession"}
       /\ \A n \in 1..Len(stages) : ~stages[n].threw
  /\ primary \in StepsAfterOpenSession =>
       /\ TeardownCloseSessions = {}
       /\ \A k \in WithCode(log, PTP_OC_CloseSession) :
            \E m \in WithCode(log, PTP_OC_OpenSession) : k < m
       /\ pc = "done" =>
            /\ outcome = "rejected"
            /\ log[Len(log)].ev = "close"

\* C25 witness: a Canon query whose direct read of 0xD1AC threw: the exit
\* sequence ran, getCameraInfo rejected, close() was called and the log
\* holds no CloseSession at all.
C25_Witness ==
  /\ pc = "done" /\ outcome = "rejected"
  /\ primary = "getDevicePropValue"
  /\ stages # <<>> /\ stages[Len(stages)] = [stage |-> 3, yield |-> Null, threw |-> TRUE]
  /\ WithCode(log, PTP_OC_CANON_EOS_SetEventMode) # {}
  /\ WithCode(log, PTP_OC_CloseSession) = {}
  /\ log[Len(log)].ev = "close"

====
